---- MODULE Spec2Model ----
(***************************************************************************)
(* A model of the WebRTC signaling/transport gateway of load-test-server:  *)
(*   - the SDP config parser and answer synthesis        (src/src/sdp.rs)  *)
(*   - the signaling state machine ProxyHandler (src/src/offer_websocket.rs)*)
(*   - the packet mux and its endpoints           (src/src/mux/endpoint.rs)*)
(*   - the session registry and lifecycle (src/src/data.rs, session.rs)    *)
(* Spec is one signaling session, SpecMux one Mux with its endpoints,      *)
(* SpecSdp the SDP functions on bounded offers, SpecKeys the SRTP key      *)
(* derivation, SpecSessions the session registry, SpecGather the candidate *)
(* gathering of one handshake.                                             *)
(***************************************************************************)
EXTENDS Integers, Sequences, FiniteSets, TLC

VARIABLES
    \* ---- one signaling session (ProxyHandler + its task) ----
    ph,          \* the ProxyHandler's fields
    sent,        \* what was written to the WebSocket sink, in order
    steps,       \* the handshake steps performed after end-of-candidates, in order
    task,        \* where the session's task is: idle, stalled, srtp, crashed, closed
    last,        \* the last inbound message handled and handle_message's result
    inbox,       \* the messages the WebSocket stream holds, not yet read: their stamps
    stamp,       \* the stamp of the next message to arrive (alternates)
    early,       \* a candidate message was received before any offer
    rejected,    \* the ICE agent has rejected a remote candidate
    srtp_n,      \* packets unprotected by the SRTP read loop
    \* ---- one Mux ----
    endpoints,   \* the registry: the ids of the registered endpoints
    ep,          \* every endpoint ever created: id -> its buffer, closed flag, ...
    dispatched,  \* log of the read loop: packet and the endpoint it went to
    \* ---- the SDP functions ----
    sdp_in,      \* the offer given to parse_sdp_config / create_answer
    sdp_cfg,     \* the result of parse_sdp_config
    sdp_out,     \* the result of create_answer
    sdp_pc,      \* which SDP function was applied last
    \* ---- SRTP key derivation ----
    key_in,      \* the negotiated profile and the exported keying material
    key_out,     \* the result of extract_srtp_info
    \* ---- the session registry (Data) and its sessions ----
    sessions,    \* Data.sessions: id -> Session
    now,         \* SystemTime::now()
    reply,       \* the last call on the registry and what it returned
    \* ---- candidate gathering in start_handshake ----
    gather_pc,        \* where start_handshake is: gather, wait, send, done, failed
    candidates,       \* the accumulator the candidate callback appends to
    candidates_ready, \* the messages in the one-shot completion channel
    reported,         \* what the ICE agent has reported to the callback, in order
    next_candidate,   \* the position of the sending loop in the candidate list
    \* ---- the endpoint adapter EndpointReadWrite ----
    rw_packets,       \* the packets in the endpoint's buffer: their lengths
    rw_read,          \* the last poll_read: the caller's space and the outcome
    \* ---- the DTLS handshake and the SRTP session of the handler ----
    dtls,             \* the TLS context dtls_connect built, the key read_srtp took
    \* ---- Endpoint::close in its two steps ----
    closing,          \* the endpoints whose close is between buffer.close and remove
    close_returned,   \* the endpoints whose close has returned
    pending,          \* the packet the read loop has matched and not yet written
    \* ---- WebRTCPool ----
    pool_count,       \* WebRTCPoolItem.count of every factory
    pool_call,        \* where each caller of create_peer_connection_manager is
    pool_done         \* the number of calls that have returned

sessionVars == <<ph, sent, steps, task, last, inbox, stamp, early, rejected, srtp_n>>
muxVars     == <<endpoints, ep, dispatched>>
sdpVars     == <<sdp_in, sdp_cfg, sdp_out, sdp_pc>>
keyVars     == <<key_in, key_out>>
dataVars    == <<sessions, now, reply>>
gatherVars  == <<gather_pc, candidates, candidates_ready, reported, next_candidate>>
adapterVars == <<rw_packets, rw_read>>
dtlsVars    == <<dtls>>
closeVars   == <<closing, close_returned, pending>>
poolVars    == <<pool_count, pool_call, pool_done>>
extraVars   == <<adapterVars, dtlsVars, closeVars, poolVars>>
vars        == <<ph, sent, steps, task, last, inbox, stamp, early, rejected, srtp_n,
                 endpoints, ep, dispatched,
                 sdp_in, sdp_cfg, sdp_out, sdp_pc, key_in, key_out,
                 sessions, now, reply,
                 gather_pc, candidates, candidates_ready, reported, next_candidate,
                 rw_packets, rw_read, dtls, closing, close_returned, pending,
                 pool_count, pool_call, pool_done>>

(***************************************************************************)
(* Bounds of the model.                                                    *)
(***************************************************************************)
MaxAttrs == 2
MaxMedia == 2
MaxCand == 2
MaxSrtp == 2
MaxEndpoints == 3
MaxPackets == 2
MaxSeed == 7
MaxInbox == 2
MaxClock == 4

\* Option::None of an optional string
NoneVal == "<None>"

SeqsUpTo(S, n) == UNION {[1..k -> S] : k \in 0..n}

SeqMap(f(_), s) == [i \in 1..Len(s) |-> f(s[i])]

RECURSIVE Flatten(_)
Flatten(ss) == IF ss = <<>> THEN <<>> ELSE Head(ss) \o Flatten(Tail(ss))

(***************************************************************************)
(* SDP: ActiveMode, parse_sdp_config, create_answer (src/src/sdp.rs)       *)
(***************************************************************************)
ActiveMode == {"Active", "Passive", "ActivePassive"}

Attr(k, v) == [key |-> k, value |-> v]

\* faulty variant: an unknown setup value is taken as Active
SetupModeUnknownActive(v) ==
    CASE v = "active"  -> "Active"
      [] v = "passive" -> "Passive"
      [] v = "actpass" -> "ActivePassive"
      [] OTHER         -> "Active"

\* the a=setup value -> ActiveMode match of parse_sdp_config
SetupMode(v) ==
    CASE v = "active"  -> "Active"
      [] v = "passive" -> "Passive"
      [] v = "actpass" -> "ActivePassive"
      [] OTHER         -> "ActivePassive"

\* faulty variant: the first value of a key is kept
ParseStepKeepFirst(acc, k) ==
    IF k.key = "ice-ufrag" /\ k.value # NoneVal /\ acc.ice_username = NoneVal
    THEN [acc EXCEPT !.ice_username = k.value]
    ELSE IF k.key = "ice-pwd" /\ k.value # NoneVal /\ acc.ice_password = NoneVal
    THEN [acc EXCEPT !.ice_password = k.value]
    ELSE IF k.key = "setup" /\ k.value # NoneVal /\ acc.active_mode = NoneVal
    THEN [acc EXCEPT !.active_mode = SetupMode(k.value)]
    ELSE acc

\* one iteration of the attribute loop of parse_sdp_config
ParseStep(acc, k) ==
    CASE k.key = "ice-ufrag" /\ k.value # NoneVal -> [acc EXCEPT !.ice_username = k.value]
      [] k.key = "ice-pwd"   /\ k.value # NoneVal -> [acc EXCEPT !.ice_password = k.value]
      [] k.key = "setup"     /\ k.value # NoneVal -> [acc EXCEPT !.active_mode = SetupMode(k.value)]
      [] OTHER -> acc

RECURSIVE ParseFold(_, _)
ParseFold(acc, attrs) ==
    IF attrs = <<>> THEN acc ELSE ParseFold(ParseStep(acc, Head(attrs)), Tail(attrs))

NoConfig ==
    [err |-> "not parsed", remote_ice_username |-> NoneVal, remote_ice_password |-> NoneVal,
     fingerprint |-> NoneVal, active_mode |-> NoneVal]

\* faulty variant: an offer without setup is taken as ActivePassive
parse_sdp_config_default_mode(sdp, fingerprint) ==
    LET acc0 == [ice_username |-> NoneVal, ice_password |-> NoneVal, active_mode |-> NoneVal]
        acc  == ParseFold(acc0, Flatten(SeqMap(LAMBDA m : m.attributes, sdp.media_descriptions)))
    IN  IF acc.ice_username = NoneVal THEN [NoConfig EXCEPT !.err = "missing ice username"]
        ELSE IF acc.ice_password = NoneVal THEN [NoConfig EXCEPT !.err = "missing ice username"]
        ELSE [err |-> "",
              remote_ice_username |-> acc.ice_username,
              remote_ice_password |-> acc.ice_password,
              fingerprint |-> fingerprint,
              active_mode |-> IF acc.active_mode = NoneVal THEN "ActivePassive"
                              ELSE acc.active_mode]

parse_sdp_config(sdp, fingerprint) ==
    LET acc0 == [ice_username |-> NoneVal, ice_password |-> NoneVal, active_mode |-> NoneVal]
        acc  == ParseFold(acc0, Flatten(SeqMap(LAMBDA m : m.attributes, sdp.media_descriptions)))
    IN  IF acc.ice_username = NoneVal THEN [NoConfig EXCEPT !.err = "missing ice username"]
        ELSE IF acc.ice_password = NoneVal THEN [NoConfig EXCEPT !.err = "missing ice username"]
        ELSE IF acc.active_mode = NoneVal THEN [NoConfig EXCEPT !.err = "no active mode found"]
        ELSE [err |-> "",
              remote_ice_username |-> acc.ice_username,
              remote_ice_password |-> acc.ice_password,
              fingerprint |-> fingerprint,
              active_mode |-> acc.active_mode]

\* CERTIFICATE's fingerprint, as crypto::fingerprint formats it
LocalFingerprint == "AB:CD"

\* format!("sha-256 {}", fingerprint)
Sha256Line(fingerprint) ==
    IF fingerprint = LocalFingerprint THEN "sha-256 AB:CD" ELSE "sha-256 ??"

\* faulty variant: the answer repeats the offer's role
AnswerSetupEcho(active_mode) ==
    CASE active_mode = "Active"        -> "active"
      [] active_mode = "ActivePassive" -> "actpass"
      [] active_mode = "Passive"       -> "passive"

\* faulty variant: the answer always takes the client role
AnswerSetupAlwaysActive(active_mode) == "active"

\* the setup value written into the answer for the offer's active mode
AnswerSetup(active_mode) ==
    CASE active_mode = "Active"        -> "passive"
      [] active_mode = "ActivePassive" -> "active"
      [] active_mode = "Passive"       -> "active"

\* faulty variant: sendrecv is passed through like any other attribute
AnswerAttrKeepSendrecv(attr, local_username, local_password, active_mode, fingerprint) ==
    CASE attr.key = "sendonly"    -> Attr("recvonly", NoneVal)
      [] attr.key = "ice-ufrag"   -> Attr(attr.key, local_username)
      [] attr.key = "ice-pwd"     -> Attr(attr.key, local_password)
      [] attr.key = "fingerprint" -> Attr(attr.key, Sha256Line(fingerprint))
      [] attr.key = "setup"       -> Attr(attr.key, AnswerSetup(active_mode))
      [] OTHER                    -> Attr(attr.key, attr.value)

\* the match on attr.key in the media attribute loop of create_answer
AnswerAttr(attr, local_username, local_password, active_mode, fingerprint) ==
    CASE attr.key = "sendonly"    -> Attr("recvonly", NoneVal)
      [] attr.key = "sendrecv"    -> Attr("recvonly", NoneVal)
      [] attr.key = "ice-ufrag"   -> Attr(attr.key, local_username)
      [] attr.key = "ice-pwd"     -> Attr(attr.key, local_password)
      [] attr.key = "fingerprint" -> Attr(attr.key, Sha256Line(fingerprint))
      [] attr.key = "setup"       -> Attr(attr.key, AnswerSetup(active_mode))
      [] OTHER                    -> Attr(attr.key, attr.value)

\* faulty variant: the attribute loop loses the fingerprint attribute
AnswerAttrsDropFingerprint(attrs, lu, lp, mode, fp) ==
    SeqMap(LAMBDA a : AnswerAttr(a, lu, lp, mode, fp),
           SelectSeq(attrs, LAMBDA a : a.key # "fingerprint"))

\* the attribute loop of one media section
AnswerAttrs(attrs, lu, lp, mode, fp) ==
    SeqMap(LAMBDA a : AnswerAttr(a, lu, lp, mode, fp), attrs)

\* the body of the loop over offer_sdp.media_descriptions
AnswerMedia(offer_sdp, media_desc, lu, lp, mode, fp) ==
    [media_name             |-> media_desc.media_name,
     media_title            |-> media_desc.media_title,
     connection_information |-> offer_sdp.connection_information,
     bandwidth              |-> media_desc.bandwidth,
     encryption_key         |-> media_desc.encryption_key,
     attributes             |-> AnswerAttrs(media_desc.attributes, lu, lp, mode, fp)]

AnswerRepeat(r) ==
    [interval |-> r.interval, duration |-> r.interval, offsets |-> r.offsets]

AnswerTime(t) ==
    [timing |-> t.timing, repeat_times |-> SeqMap(AnswerRepeat, t.repeat_times)]

create_answer(offer_sdp, local_username, local_password, active_mode, fingerprint) ==
    [version                |-> offer_sdp.version,
     origin                 |-> offer_sdp.origin,
     session_name           |-> offer_sdp.session_name,
     session_information    |-> offer_sdp.session_information,
     uri                    |-> offer_sdp.uri,
     email_address          |-> offer_sdp.email_address,
     phone_number           |-> offer_sdp.phone_number,
     connection_information |-> offer_sdp.connection_information,
     bandwidth              |-> offer_sdp.bandwidth,
     time_descriptions      |-> SeqMap(AnswerTime, offer_sdp.time_descriptions),
     time_zones             |-> <<>>,
     encryption_key         |-> offer_sdp.encryption_key,
     attributes             |-> offer_sdp.attributes,
     media_descriptions     |->
         SeqMap(LAMBDA m : AnswerMedia(offer_sdp, m, local_username, local_password,
                                       active_mode, fingerprint),
                offer_sdp.media_descriptions)]

(***************************************************************************)
(* Offers: the inputs of the SDP functions.                                *)
(***************************************************************************)
\* the gateway's ICE credentials (Agent::get_local_user_credentials)
LocalUfrag == "LOCALUFRAG"
LocalPwd == "LOCALPWD"

AttrPool ==
    { Attr("sendonly", NoneVal), Attr("sendrecv", NoneVal),
      Attr("ice-ufrag", "abc"), Attr("ice-ufrag", "def"),
      Attr("ice-pwd", "xyz123456789"), Attr("fingerprint", "sha-256 11:22"),
      Attr("setup", "active"), Attr("setup", "passive"), Attr("setup", "actpass"),
      Attr("setup", "holdconn"), Attr("setup", NoneVal), Attr("mid", "0") }

Media(name, title, conn, bw, key, attrs) ==
    [media_name |-> name, media_title |-> title, connection_information |-> conn,
     bandwidth |-> bw, encryption_key |-> key, attributes |-> attrs]

\* media sections with every attribute list of up to MaxAttrs pool attributes
FreeMedia ==
    { Media("application", NoneVal, NoneVal, <<>>, NoneVal, as) : as \in SeqsUpTo(AttrPool, MaxAttrs) }

AudioMedia ==
    Media("audio", NoneVal, NoneVal, <<>>, NoneVal,
          << Attr("ice-ufrag", "abc"), Attr("ice-pwd", "xyz123456789"),
             Attr("fingerprint", "sha-256 11:22"), Attr("setup", "actpass"),
             Attr("sendrecv", NoneVal), Attr("rtcp-mux", NoneVal) >>)

VideoMedia ==
    Media("video", "camera", "IN IP4 10.0.0.2", <<"AS:512">>, "prompt",
          << Attr("mid", "1"), Attr("ice-ufrag", "abc"), Attr("ice-pwd", "xyz123456789"),
             Attr("setup", "actpass"), Attr("sendonly", NoneVal) >>)

DataMedia ==
    Media("text", NoneVal, NoneVal, <<>>, NoneVal, << Attr("recvonly", NoneVal) >>)

\* ICE credentials but no setup attribute
CredsMedia ==
    Media("message", NoneVal, NoneVal, <<>>, NoneVal,
          << Attr("ice-ufrag", "ghi"), Attr("ice-pwd", "uvw987654321") >>)

FixedMedia == {AudioMedia, VideoMedia, CredsMedia}

\* s with x inserted so that it becomes element i
InsertAt(s, i, x) == SubSeq(s, 1, i - 1) \o <<x>> \o SubSeq(s, i, Len(s))

\* lists of up to MaxMedia sections: fixed sections, at most one of them free
MediaLists ==
    LET fixed == SeqsUpTo(FixedMedia, MaxMedia - 1)
    IN  SeqsUpTo(FixedMedia, MaxMedia)
        \cup { InsertAt(ms, i, m) : <<ms, i, m>> \in
                 { t \in fixed \X (1..MaxMedia) \X FreeMedia : t[2] <= Len(t[1]) + 1 } }

SessionDescription(conn, bw, times, zones, attrs, media) ==
    [version |-> 0, origin |-> "- 4611 2 IN IP4 127.0.0.1", session_name |-> "-",
     session_information |-> NoneVal, uri |-> NoneVal, email_address |-> NoneVal,
     phone_number |-> NoneVal, connection_information |-> conn, bandwidth |-> bw,
     time_descriptions |-> times, time_zones |-> zones, encryption_key |-> NoneVal,
     attributes |-> attrs, media_descriptions |-> media]

PlainSession(media) ==
    SessionDescription(NoneVal, <<>>, <<[timing |-> "0 0", repeat_times |-> <<>>]>>, <<>>,
                       <<>>, media)

RichSession(media) ==
    SessionDescription("IN IP4 10.0.0.1", <<"AS:1024">>,
        <<[timing |-> "10 20",
           repeat_times |-> <<[interval |-> 604800, duration |-> 3600, offsets |-> <<0, 90000>>]>>]>>,
        <<"2882844526 -1h">>,
        << Attr("group", "BUNDLE 0 1"), Attr("ice-ufrag", "sess") >>, media)

Offers ==
    { PlainSession(ms) : ms \in MediaLists }
    \cup { RichSession(ms) : ms \in SeqsUpTo(FixedMedia, MaxMedia) }

(***************************************************************************)
(* SpecSdp: parse_sdp_config and create_answer applied to every offer.     *)
(***************************************************************************)
NoAnswer == PlainSession(<<>>)

SdpIdle ==
    /\ sdp_in = NoAnswer
    /\ sdp_cfg = NoConfig
    /\ sdp_out = NoAnswer
    /\ sdp_pc = "off"

\* parse_sdp_config(&offer, fingerprint) as start_handshake calls it
ParseConfig ==
    /\ sdp_pc = "offer"
    /\ sdp_cfg' = parse_sdp_config(sdp_in, LocalFingerprint)
    /\ sdp_pc' = "parsed"
    /\ UNCHANGED <<sdp_in, sdp_out, sessionVars, muxVars, keyVars, dataVars, gatherVars, extraVars>>

\* create_answer with the parsed config, as ProxyHandler::create_answer calls it
AnswerFromConfig ==
    /\ sdp_pc = "parsed"
    /\ sdp_cfg.err = ""
    /\ sdp_out' = create_answer(sdp_in, LocalUfrag, LocalPwd, sdp_cfg.active_mode,
                                sdp_cfg.fingerprint)
    /\ sdp_pc' = "answered"
    /\ UNCHANGED <<sdp_in, sdp_cfg, sessionVars, muxVars, keyVars, dataVars, gatherVars, extraVars>>

\* create_answer called with any active mode
AnswerAnyMode ==
    /\ sdp_pc = "offer"
    /\ \E mode \in ActiveMode :
         /\ sdp_out' = create_answer(sdp_in, LocalUfrag, LocalPwd, mode, LocalFingerprint)
         /\ sdp_cfg' = [NoConfig EXCEPT !.err = "direct", !.active_mode = mode]
    /\ sdp_pc' = "direct"
    /\ UNCHANGED <<sdp_in, sessionVars, muxVars, keyVars, dataVars, gatherVars, extraVars>>

Answered == sdp_pc \in {"answered", "direct"}

(***************************************************************************)
(* ProxyHandler: the signaling state machine (src/src/offer_websocket.rs)  *)
(***************************************************************************)
\* Option<T>: None is the empty sequence, Some(x) the sequence <<x>>
None == <<>>
Some(x) == <<x>>

ProxyMessageState == {"Offer", "Candidate", "CandidatesEnd"}
ProxyAgentState == {"New", "Gathering", "ICEReady"}

SRTP_MAX_KEY_LEN == 64

\* ProxyHandler::new
NewProxyHandler ==
    [message_state |-> "Offer", offer |-> None, sdp_config |-> None, ice_state |-> "New",
     ice_agent |-> None, mux |-> None, protection_profile |-> None]

\* inbound WebSocket messages: the JSON shape, and the fields it carries
OfferMsg(o) == [json |-> "offer", sdp_ok |-> TRUE, offer |-> o, candidate |-> NoneVal]
BadSdpMsg == [json |-> "offer", sdp_ok |-> FALSE, offer |-> NoAnswer, candidate |-> NoneVal]
CandidateMsg(c) == [json |-> "candidate", sdp_ok |-> FALSE, offer |-> NoAnswer, candidate |-> c]
BothMsg(o, c) == [json |-> "both", sdp_ok |-> TRUE, offer |-> o, candidate |-> c]
GarbageMsg == [json |-> "garbage", sdp_ok |-> FALSE, offer |-> NoAnswer, candidate |-> NoneVal]

OneMedia(setup) ==
    Media("audio", NoneVal, NoneVal, <<>>, NoneVal,
          << Attr("ice-ufrag", "abc"), Attr("ice-pwd", "xyz123456789"),
             Attr("fingerprint", "sha-256 11:22"), Attr("setup", setup),
             Attr("sendrecv", NoneVal) >>)

SessionOffers ==
    { PlainSession(<<OneMedia(su)>>) : su \in {"active", "passive", "actpass", "holdconn"} }
    \cup { PlainSession(<<AudioMedia, VideoMedia>>),  \* two sections, actpass
           PlainSession(<<DataMedia>>),               \* no ICE credentials, no setup
           PlainSession(<<>>) }

\* an ICE candidate line the agent cannot unmarshal
BadCandidate == "candidate:garbage"

Candidates == {"", "candidate:1 1 udp 2130706431 10.0.0.9 5000 typ host", BadCandidate}

Inbound ==
    { OfferMsg(o) : o \in SessionOffers }
    \cup { BadSdpMsg, GarbageMsg }
    \cup { CandidateMsg(c) : c \in Candidates }
    \cup { BothMsg(PlainSession(<<OneMedia("active")>>), "") }

IsCandidateMsg(msg) == msg.json = "candidate"

\* what the environment does during one handler: the step that fails (if any),
\* the local candidates gathered, the write that fails, the SRTP profile negotiated
OfferEnvs ==
    { [fail |-> f, ncand |-> n, at |-> 1, profile |-> "none"] :
        f \in {"none", "agent", "fingerprint", "gather", "stall"}, n \in 0..MaxCand }
    \cup { [fail |-> "send", ncand |-> n, at |-> k, profile |-> "none"] :
             n \in 0..MaxCand, k \in 1..MaxCand }

\* the profiles of set_tlsext_use_srtp in ssl_connector (src/src/dtls.rs)
ClientCtxProfiles == {"SRTP_AES128_CM_SHA1_80", "SRTP_AES128_CM_SHA1_32"}

EndEnvs ==
    { [fail |-> f, ncand |-> 0, at |-> 1, profile |-> "none"] :
        f \in {"send", "ice", "ssl", "dtls"} }
    \cup { [fail |-> f, ncand |-> 0, at |-> 1, profile |-> p] :
             f \in {"none", "export", "srtp_setup"}, p \in ClientCtxProfiles \cup {"none"} }

NoEnv == [fail |-> "none", ncand |-> 0, at |-> 1, profile |-> "none"]

\* the environment choices that the handling of msg can meet
EnvsFor(h, msg) ==
    IF h.message_state = "Offer" /\ msg.json \in {"offer", "both"} /\ msg.sdp_ok
    THEN OfferEnvs
    ELSE IF h.message_state = "Candidate" /\ msg.json \in {"candidate", "both"}
            /\ msg.candidate = ""
    THEN EndEnvs
    ELSE {NoEnv}

Ret(S, res) == [S EXCEPT !.res = res]

LocalCandidate(i) == [kind |-> "candidate", body |-> <<"candidate", i>>]
AnswerMessage(sdp) == [kind |-> "answer", body |-> sdp]

\* the loop of start_handshake that sends the gathered candidates
RECURSIVE SendCandidates(_, _, _, _)
SendCandidates(S, i, n, env) ==
    IF i > n THEN Ret(S, "Ok")
    ELSE IF env.fail = "send" /\ env.at = i THEN Ret(S, "WebSocketWriteError")
    ELSE SendCandidates([S EXCEPT !.sent = Append(@, LocalCandidate(i))], i + 1, n, env)

\* faulty variant: a gathering that does not complete is given up as an error
start_handshake_timeout(S, offer, env) ==
    IF env.fail = "agent" THEN Ret(S, "InvalidAgentConfig")
    ELSE IF env.fail = "fingerprint" THEN Ret(S, "InternalError")
    ELSE
      LET S1  == [S EXCEPT !.ph.ice_agent = Some([remote |-> {}])]
          cfg == parse_sdp_config(offer, LocalFingerprint)
      IN  IF cfg.err # "" THEN Ret(S1, "InvalidSDP")
          ELSE
            LET S2 == [S1 EXCEPT !.ph.sdp_config = Some(cfg),
                                 !.ph.offer = Some(offer),
                                 !.ph.ice_state = "Gathering"]
            IN  IF env.fail \in {"gather", "stall"} THEN Ret(S2, "GatheringError")
                ELSE SendCandidates(S2, 1, env.ncand, env)

\* faulty variant: the offer is stored before it is parsed
start_handshake_offer_first(S, offer, env) ==
    IF env.fail = "agent" THEN Ret(S, "InvalidAgentConfig")
    ELSE IF env.fail = "fingerprint" THEN Ret(S, "InternalError")
    ELSE
      LET S1  == [S EXCEPT !.ph.ice_agent = Some([remote |-> {}]),
                           !.ph.offer = Some(offer)]
          cfg == parse_sdp_config(offer, LocalFingerprint)
      IN  IF cfg.err # "" THEN Ret(S1, "InvalidSDP")
          ELSE
            LET S2 == [S1 EXCEPT !.ph.sdp_config = Some(cfg),
                                 !.ph.ice_state = "Gathering"]
            IN  IF env.fail = "gather" THEN Ret(S2, "GatheringError")
                ELSE IF env.fail = "stall" THEN [Ret(S2, "pending") EXCEPT !.task = "stalled"]
                ELSE SendCandidates(S2, 1, env.ncand, env)

start_handshake(S, offer, env) ==
    IF env.fail = "agent" THEN Ret(S, "InvalidAgentConfig")
    ELSE IF env.fail = "fingerprint" THEN Ret(S, "InternalError")
    ELSE
      LET S1  == [S EXCEPT !.ph.ice_agent = Some([remote |-> {}])]
          cfg == parse_sdp_config(offer, LocalFingerprint)
      IN  IF cfg.err # "" THEN Ret(S1, "InvalidSDP")
          ELSE
            LET S2 == [S1 EXCEPT !.ph.sdp_config = Some(cfg),
                                 !.ph.offer = Some(offer),
                                 !.ph.ice_state = "Gathering"]
            IN  IF env.fail = "gather" THEN Ret(S2, "GatheringError")
                ELSE IF env.fail = "stall" THEN [Ret(S2, "pending") EXCEPT !.task = "stalled"]
                ELSE SendCandidates(S2, 1, env.ncand, env)

handle_offer(S, request, env) ==
    IF ~request.sdp_ok THEN Ret(S, "InvalidSDP")
    ELSE start_handshake([S EXCEPT !.ph.message_state = "Candidate"], request.offer, env)

ProfileLens(kind) ==
    CASE kind = "SRTP_AES128_CM_SHA1_80" -> <<16, 14>>
      [] kind = "SRTP_AEAD_AES_128_GCM"  -> <<16, 12>>

\* faulty variant: the region is left as exported
RotateNone(s, k) == s

\* slice::rotate_left
RotateLeft(s, k) == SubSeq(s, k + 1, Len(s)) \o SubSeq(s, 1, k)

\* a synthetic exported keying material: byte i of the export is the number i
Material == [i \in 1..(2 * SRTP_MAX_KEY_LEN) |-> i - 1]

extract_srtp_info(S0, profile, material, env) ==
    LET S == [S0 EXCEPT !.steps = Append(@, "extract_srtp_info")]
    IN
    IF profile = "none" THEN Ret(S, "NoProtectionProfile")
    ELSE IF profile \notin {"SRTP_AES128_CM_SHA1_80", "SRTP_AEAD_AES_128_GCM"}
    THEN Ret(S, "InvalidProtectionProfile")
    ELSE IF env.fail = "export" THEN Ret(S, "InternalError")
    ELSE
      LET master_key_len  == ProfileLens(profile)[1]
          master_salt_len == ProfileLens(profile)[2]
          master_len == master_key_len + master_salt_len
          rot_start  == master_key_len
          rot_end    == rot_start + master_len
          buf == SubSeq(material, 1, rot_start)
                 \o RotateLeft(SubSeq(material, rot_start + 1, rot_end), master_key_len)
                 \o SubSeq(material, rot_end + 1, Len(material))
      IN  Ret([S EXCEPT !.ph.protection_profile =
                   Some([kind |-> profile,
                         server_key |-> SubSeq(buf, master_len + 1, 2 * master_len),
                         client_key |-> SubSeq(buf, 1, master_len)])],
              "Ok")

\* read_srtp up to its loop
read_srtp(S, env) ==
    IF S.ph.protection_profile = None THEN Ret(S, "InternalError")
    ELSE IF env.fail = "srtp_setup" THEN Ret(S, "InternalError")
    ELSE [Ret(S, "pending") EXCEPT !.task = "srtp", !.steps = Append(@, "read_srtp"),
                                   !.dtls.key = S.ph.protection_profile[1].server_key]

\* faulty variant: the handshake branch follows the name of is_client
DtlsCallByName(is_client) == IF is_client THEN "dtls_connect" ELSE "dtls_accept"

\* the branch of dtls_connect on is_client
DtlsCall(is_client) == IF is_client THEN "dtls_accept" ELSE "dtls_connect"

\* the context dtls_connect builds its Ssl from: ssl_client(SslMethod::dtls())
DtlsContext(is_client) == "ssl_client"

\* the profiles of set_tlsext_use_srtp in ssl_connector and ssl_acceptor
CtxProfiles(ctx) ==
    IF ctx = "ssl_server" THEN {"SRTP_AES128_CM_SHA1_80", "SRTP_AEAD_AES_128_GCM"}
    ELSE ClientCtxProfiles

\* faulty variant: a failed handshake is reported and the key derivation goes on
dtls_connect_lenient(S, is_client, env) ==
    IF env.fail = "ssl" THEN [Ret(S, "panic") EXCEPT !.task = "crashed"]
    ELSE extract_srtp_info([S EXCEPT !.steps = Append(@, DtlsCall(is_client)),
                                     !.dtls.ctx = DtlsContext(is_client)],
                           env.profile, Material, env)

dtls_connect(S, is_client, env) ==
    IF env.fail = "ssl" THEN [Ret(S, "panic") EXCEPT !.task = "crashed"]
    ELSE
      LET S1 == [S EXCEPT !.steps = Append(@, DtlsCall(is_client)),
                          !.dtls.ctx = DtlsContext(is_client)]
      IN  IF env.fail = "dtls" THEN Ret(S1, "InternalError")
          ELSE extract_srtp_info(S1, env.profile, Material, env)

\* setup_ice_client / setup_ice_server
IceCall(is_client) == IF is_client THEN "ice_dial" ELSE "ice_accept"

handle_end_of_candidates(S, env) ==
    IF S.ph.sdp_config = None THEN Ret(S, "InternalError")
    ELSE IF S.ph.ice_agent = None \/ S.ph.offer = None THEN Ret(S, "InternalError")
    ELSE
      LET cfg == S.ph.sdp_config[1]
          answer_sdp == create_answer(S.ph.offer[1], LocalUfrag, LocalPwd,
                                      cfg.active_mode, cfg.fingerprint)
          S1 == [S EXCEPT !.steps = Append(@, "create_answer")]
      IN  IF env.fail = "send" THEN Ret(S1, "WebSocketWriteError")
          ELSE
            LET S2 == [S1 EXCEPT !.sent = Append(@, AnswerMessage(answer_sdp))]
                is_client == cfg.active_mode = "Active"
                S3 == [S2 EXCEPT !.steps = Append(@, IceCall(is_client))]
            IN  IF env.fail = "ice" THEN Ret(S3, "InternalError")
                ELSE
                  LET S4 == [S3 EXCEPT !.ph.mux = Some("mux"),
                                       !.steps = Append(@, "add_mux")]
                      S5 == dtls_connect(S4, is_client, env)
                  IN  IF S5.res # "Ok" THEN S5 ELSE read_srtp(S5, env)

\* Agent::unmarshal_remote_candidate
AddRemote(agent, candidate) ==
    IF candidate = BadCandidate THEN agent ELSE [agent EXCEPT !.remote = @ \cup {candidate}]

\* faulty variant: a candidate the agent rejects fails the handler
handle_candidate_strict(S, request, env) ==
    IF S.ph.ice_agent = None THEN Ret(S, "InternalError")
    ELSE IF request.candidate = ""
    THEN handle_end_of_candidates([S EXCEPT !.ph.message_state = "CandidatesEnd"], env)
    ELSE IF request.candidate = BadCandidate THEN Ret(S, "InternalError")
    ELSE Ret([S EXCEPT !.ph.ice_agent = Some(AddRemote(@[1], request.candidate))], "Ok")

handle_candidate(S, request, env) ==
    IF S.ph.ice_agent = None THEN Ret(S, "InternalError")
    ELSE IF request.candidate = ""
    THEN handle_end_of_candidates([S EXCEPT !.ph.message_state = "CandidatesEnd"], env)
    ELSE Ret([S EXCEPT !.ph.ice_agent = Some(AddRemote(@[1], request.candidate))], "Ok")

\* faulty variant: a message in CandidatesEnd is handled like one in Candidate
handle_message_no_end(S, msg, env) ==
    CASE S.ph.message_state = "Offer" ->
           IF msg.json \notin {"offer", "both"} THEN Ret(S, "ParseFailed")
           ELSE handle_offer(S, msg, env)
      [] OTHER ->
           IF msg.json \notin {"candidate", "both"} THEN Ret(S, "ParseFailed")
           ELSE handle_candidate(S, msg, env)

\* faulty variant: a failed offer puts the session back into the Offer state
handle_message_reset(S, msg, env) ==
    CASE S.ph.message_state = "Offer" ->
           IF msg.json \notin {"offer", "both"} THEN Ret(S, "ParseFailed")
           ELSE handle_offer(S, msg, env)
      [] S.ph.message_state = "Candidate" ->
           IF msg.json \notin {"candidate", "both"}
           THEN Ret([S EXCEPT !.ph.message_state = "Offer"], "ParseFailed")
           ELSE handle_candidate(S, msg, env)
      [] OTHER -> Ret(S, "Ok")

\* faulty variant: a candidate message is accepted in the Offer state
handle_message_early(S, msg, env) ==
    CASE S.ph.message_state = "Offer" ->
           IF msg.json = "candidate"
           THEN Ret([S EXCEPT !.ph.ice_agent = Some([remote |-> {msg.candidate}])], "Ok")
           ELSE IF msg.json \notin {"offer", "both"} THEN Ret(S, "ParseFailed")
           ELSE handle_offer(S, msg, env)
      [] S.ph.message_state = "Candidate" ->
           IF msg.json \notin {"candidate", "both"} THEN Ret(S, "ParseFailed")
           ELSE handle_candidate(S, msg, env)
      [] OTHER -> Ret(S, "Ok")

handle_message(S, msg, env) ==
    CASE S.ph.message_state = "Offer" ->
           IF msg.json \notin {"offer", "both"} THEN Ret(S, "ParseFailed")
           ELSE handle_offer(S, msg, env)
      [] S.ph.message_state = "Candidate" ->
           IF msg.json \notin {"candidate", "both"} THEN Ret(S, "ParseFailed")
           ELSE handle_candidate(S, msg, env)
      [] OTHER -> Ret(S, "Ok")

(***************************************************************************)
(* Spec: one session driven by handle_offer_websocket.                     *)
(***************************************************************************)
NoMessage == [json |-> "none", candidate |-> NoneVal, state |-> "Offer", res |-> "none",
              seq |-> TRUE, fail |-> "none"]

SessionInit ==
    /\ ph = NewProxyHandler
    /\ sent = <<>>
    /\ steps = <<>>
    /\ task = "idle"
    /\ last = NoMessage
    /\ inbox = <<>>
    /\ stamp = FALSE
    /\ early = FALSE
    /\ rejected = FALSE
    /\ srtp_n = 0

\* the client sends a message: the stream holds it until read.next() takes it
Arrive ==
    /\ task # "closed"
    /\ Len(inbox) < MaxInbox
    /\ inbox' = Append(inbox, stamp)
    /\ stamp' = ~stamp
    /\ UNCHANGED <<ph, sent, steps, task, last, early, rejected, srtp_n,
                   muxVars, sdpVars, keyVars, dataVars, gatherVars, extraVars>>

\* faulty variant: every message read is handled at once, whatever the task is doing
HandleMessageSpawned ==
    /\ task \in {"idle", "stalled", "srtp"}
    /\ inbox # <<>>
    /\ inbox' = Tail(inbox)
    /\ \E msg \in Inbound : \E env \in EnvsFor(ph, msg) :
         LET R == handle_message([ph |-> ph, sent |-> sent, steps |-> steps,
                                  task |-> task, res |-> "Ok", dtls |-> dtls], msg, env)
         IN  /\ ph' = R.ph
             /\ dtls' = R.dtls
             /\ sent' = R.sent
             /\ steps' = R.steps
             /\ task' = R.task
             /\ last' = [json |-> msg.json, candidate |-> msg.candidate,
                         state |-> ph.message_state, res |-> R.res,
                         seq |-> Head(inbox), fail |-> env.fail]
    /\ UNCHANGED <<stamp, early, rejected, srtp_n, muxVars, sdpVars, keyVars, dataVars, gatherVars, adapterVars,
                   closeVars, poolVars>>

\* Ok(message) => handle.handle_message(message).await
HandleMessage ==
    /\ task = "idle"
    /\ inbox # <<>>
    /\ inbox' = Tail(inbox)
    /\ \E msg \in Inbound : \E env \in EnvsFor(ph, msg) :
         LET R == handle_message([ph |-> ph, sent |-> sent, steps |-> steps,
                                  task |-> task, res |-> "Ok", dtls |-> dtls], msg, env)
         IN  /\ ph' = R.ph
             /\ dtls' = R.dtls
             /\ sent' = R.sent
             /\ steps' = R.steps
             /\ task' = R.task
             /\ last' = [json |-> msg.json, candidate |-> msg.candidate,
                         state |-> ph.message_state, res |-> R.res,
                         seq |-> Head(inbox), fail |-> env.fail]
             /\ early' = (early \/ (ph.message_state = "Offer" /\ IsCandidateMsg(msg)))
             /\ rejected' = (rejected \/ (/\ ph.message_state = "Candidate"
                                         /\ ph.ice_agent # None
                                         /\ IsCandidateMsg(msg)
                                         /\ msg.candidate = BadCandidate))
    /\ UNCHANGED <<stamp, srtp_n, muxVars, sdpVars, keyVars, dataVars, gatherVars, adapterVars,
                   closeVars, poolVars>>

\* one iteration of the loop of read_srtp that unprotects its packet
SrtpPacket ==
    /\ task = "srtp"
    /\ srtp_n < MaxSrtp
    /\ srtp_n' = srtp_n + 1
    /\ UNCHANGED <<ph, sent, steps, task, last, inbox, stamp, early, rejected,
                   muxVars, sdpVars, keyVars, dataVars, gatherVars, extraVars>>

\* faulty variant: the failure is reported and the loop goes on with the next packet
SrtpFailRetry ==
    /\ task = "srtp"
    /\ last' = [last EXCEPT !.res = "InternalError"]
    /\ UNCHANGED <<ph, sent, steps, task, inbox, stamp, early, rejected, srtp_n,
                   muxVars, sdpVars, keyVars, dataVars, gatherVars, extraVars>>

\* the iteration of read_srtp whose recv or unprotect fails: handle_message returns
SrtpFail ==
    /\ task = "srtp"
    /\ task' = "idle"
    /\ last' = [last EXCEPT !.res = "InternalError"]
    /\ UNCHANGED <<ph, sent, steps, inbox, stamp, early, rejected, srtp_n,
                   muxVars, sdpVars, keyVars, dataVars, gatherVars, extraVars>>

\* Err(err) from read.next(): logged, the loop goes on
WsReadError ==
    /\ task = "idle"
    /\ inbox = <<>>
    /\ last' = [json |-> "read-error", candidate |-> NoneVal,
                state |-> ph.message_state, res |-> "InternalError", seq |-> last.seq,
                fail |-> "none"]
    /\ UNCHANGED <<ph, sent, steps, task, inbox, stamp, early, rejected, srtp_n,
                   muxVars, sdpVars, keyVars, dataVars, gatherVars, extraVars>>

\* read.next() returns None: the loop and the session end
WsClosed ==
    /\ task = "idle"
    /\ inbox = <<>>
    /\ task' = "closed"
    /\ UNCHANGED <<ph, sent, steps, last, inbox, stamp, early, rejected, srtp_n,
                   muxVars, sdpVars, keyVars, dataVars, gatherVars, extraVars>>

(***************************************************************************)
(* Mux and Endpoint (src/src/mux/endpoint.rs; the Mux itself after the     *)
(* design of section 4.1: registration, the read loop and its dispatch).   *)
(***************************************************************************)
\* first bytes of the packets on the underlying connection
Bytes == {20, 100, 191}

\* mux_func::match_range(lower, upper)
match_range(lower, upper) == <<lower, upper>>

\* the predicates of the endpoints registered besides those of add_mux
MoreRanges == {match_range(0, 255)}

Matches(range, b) == range[1] <= b /\ b <= range[2]

\* struct Endpoint with its Buffer (packets, closed), and where its consumer is:
\* idle, waiting (suspended in recv) or failed (its last recv returned the error)
NewEndpointRec(range) ==
    [match_fn |-> range, buffer |-> <<>>, closed |-> FALSE, consumer |-> "idle", got |-> <<>>]

\* Mux::new_endpoint: the next id, registered
new_endpoint(m, range) ==
    [endpoints |-> m.endpoints \cup {Len(m.ep) + 1},
     ep |-> Append(m.ep, NewEndpointRec(range))]

NewMux == [endpoints |-> {}, ep |-> <<>>]

\* faulty variant: the DTLS predicate also takes the SRTP range
add_mux_wide == new_endpoint(new_endpoint(NewMux, match_range(20, 191)), match_range(128, 191))

\* ProxyHandler::add_mux: the DTLS endpoint, then the SRTP endpoint
add_mux == new_endpoint(new_endpoint(NewMux, match_range(20, 63)), match_range(128, 191))

DtlsEndpoint == 1
SrtpEndpoint == 2

MuxIdle ==
    /\ endpoints = {}
    /\ ep = <<>>
    /\ dispatched = <<>>

MuxInit ==
    /\ endpoints = add_mux.endpoints
    /\ ep = add_mux.ep
    /\ dispatched = <<>>

\* mux.new_endpoint(f) by another user of the Mux
NewEndpoint ==
    /\ Len(ep) < MaxEndpoints
    /\ \E range \in MoreRanges :
         LET m == new_endpoint([endpoints |-> endpoints, ep |-> ep], range)
         IN  /\ endpoints' = m.endpoints
             /\ ep' = m.ep
    /\ UNCHANGED <<dispatched, sessionVars, sdpVars, keyVars, dataVars, gatherVars, extraVars>>

Min(S) == CHOOSE x \in S : \A y \in S : x <= y

\* faulty variant: a packet no predicate matches goes to the first registered endpoint
FirstMatchOrFirst(reg, eps, b) ==
    LET hits == {e \in reg : Matches(eps[e].match_fn, b)}
    IN  IF hits # {} THEN Min(hits) ELSE IF reg # {} THEN Min(reg) ELSE 0

\* faulty variant: the last registered endpoint whose predicate matches
LastMatch(reg, eps, b) ==
    LET hits == {e \in reg : Matches(eps[e].match_fn, b)}
    IN  IF hits = {} THEN 0 ELSE CHOOSE x \in hits : \A y \in hits : y <= x

\* dispatch: the first registered endpoint, in registration order, whose
\* predicate matches; 0 when none does
FirstMatch(reg, eps, b) ==
    LET hits == {e \in reg : Matches(eps[e].match_fn, b)}
    IN  IF hits = {} THEN 0 ELSE Min(hits)

\* Buffer::write: refused once the buffer is closed
BufferWrite(e, p) == IF e.closed THEN e ELSE [e EXCEPT !.buffer = Append(@, p)]

\* one iteration of the Mux read loop: next_conn.recv returns a packet with
\* first byte b, and the packet is dispatched
ReadLoop ==
    /\ Len(dispatched) < MaxPackets
    /\ \E b \in Bytes :
         LET p   == [seq |-> Len(dispatched) + 1, b |-> b]
             hit == FirstMatch(endpoints, ep, b)
             to  == IF hit # 0 /\ ~ep[hit].closed THEN hit ELSE 0
         IN  /\ ep' = IF hit = 0 THEN ep ELSE [ep EXCEPT ![hit] = BufferWrite(@, p)]
             /\ dispatched' = Append(dispatched, [pkt |-> p, to |-> to])
    /\ UNCHANGED <<endpoints, sessionVars, sdpVars, keyVars, dataVars, gatherVars, extraVars>>

\* faulty variant: recv takes the newest packet of the buffer
endpoint_recv_newest(e) ==
    IF e.buffer # <<>>
    THEN [e EXCEPT !.buffer = SubSeq(@, 1, Len(@) - 1),
                   !.got = Append(@, e.buffer[Len(e.buffer)]),
                   !.consumer = "idle"]
    ELSE [e EXCEPT !.consumer = "failed"]

\* Endpoint::recv once buffer.read returns: Ok with the oldest packet, or the
\* error of a closed and empty buffer
endpoint_recv(e) ==
    IF e.buffer # <<>>
    THEN [e EXCEPT !.buffer = Tail(@), !.got = Append(@, Head(e.buffer)),
                   !.consumer = "idle"]
    ELSE [e EXCEPT !.consumer = "failed"]

\* the consumer of endpoint id calls recv, which suspends on buffer.read; the
\* endpoints are read by one task (dtls_connect, then read_srtp), one recv at a time
RecvCall ==
    /\ \E id \in 1..Len(ep) :
         /\ ep[id].consumer = "idle"
         /\ \A other \in 1..Len(ep) : ep[other].consumer # "waiting"
         /\ ep' = [ep EXCEPT ![id].consumer = "waiting"]
    /\ UNCHANGED <<endpoints, dispatched, sessionVars, sdpVars, keyVars, dataVars, gatherVars, extraVars>>

\* Buffer::read returns once a packet is there or the buffer is closed
CanReturn(e) == e.consumer = "waiting" /\ (e.buffer # <<>> \/ e.closed)

\* buffer.read wakes up and recv returns
RecvReturn ==
    /\ \E id \in 1..Len(ep) :
         /\ CanReturn(ep[id])
         /\ ep' = [ep EXCEPT ![id] = endpoint_recv(@)]
    /\ UNCHANGED <<endpoints, dispatched, sessionVars, sdpVars, keyVars, dataVars, gatherVars, extraVars>>

\* faulty variant: close only unregisters: the buffer stays open
endpoint_close_registry_only(m, id) ==
    [endpoints |-> m.endpoints \ {id}, ep |-> m.ep]

\* faulty variant: close clears the whole registry
endpoint_close_all(m, id) ==
    [endpoints |-> {}, ep |-> [m.ep EXCEPT ![id].closed = TRUE]]

\* Endpoint::close: self.buffer.close(), then endpoints.remove(&self.id)
endpoint_close(m, id) ==
    [endpoints |-> m.endpoints \ {id}, ep |-> [m.ep EXCEPT ![id].closed = TRUE]]

TheMux == [endpoints |-> endpoints, ep |-> ep]

\* endpoint.close().await on any endpoint ever created, closed before or not
Close ==
    /\ \E id \in 1..Len(ep) :
         LET m == endpoint_close(TheMux, id)
         IN  /\ endpoints' = m.endpoints
             /\ ep' = m.ep
    /\ UNCHANGED <<dispatched, sessionVars, sdpVars, keyVars, dataVars, gatherVars, extraVars>>

(***************************************************************************)
(* SpecSessions: the session registry Data (src/src/data.rs) and the       *)
(* lifecycle of its sessions (src/src/session.rs, stats.rs, helpers.rs).   *)
(***************************************************************************)
SessionState == {"Created", "Started", "Stopped"}

\* the ids and names that create_session is asked for
SessionIds == {"s1", "s2"}
SessionNames == {"first", "second"}

\* SystemTime counts in units finer than a second: two ticks of the clock a second
TicksPerSecond == 2

\* Session::new
NewSession(id, name) ==
    [id |-> id, name |-> name, state |-> "Created", start_time |-> None, stop_time |-> None]

\* Data::new
NewData == <<>>

\* DashMap::insert
MapInsert(map, key, value) ==
    [k \in DOMAIN map \cup {key} |-> IF k = key THEN value ELSE map[k]]

\* faulty variant: an id already in the registry keeps its session
add_session_keep_first(data, session) ==
    IF session.id \in DOMAIN data THEN data ELSE MapInsert(data, session.id, session)

\* Data::add_session
add_session(data, session) == MapInsert(data, session.id, session)

\* Data::get_session
get_session(data, id) ==
    IF id \in DOMAIN data THEN [res |-> "Ok", val |-> data[id]]
    ELSE [res |-> "InvalidSessionError", val |-> None]

\* faulty variant: a stopped session can be started again
session_start_again(self, time) ==
    IF self.state = "Started"
    THEN [res |-> "InvalidStateError", self |-> self]
    ELSE [res |-> "Ok", self |-> [self EXCEPT !.state = "Started", !.start_time = Some(time)]]

\* Session::start
session_start(self, time) ==
    IF self.state # "Created"
    THEN [res |-> "InvalidStateError", self |-> self]
    ELSE [res |-> "Ok", self |-> [self EXCEPT !.state = "Started", !.start_time = Some(time)]]

\* Session::stop
session_stop(self, time) ==
    IF self.state # "Started"
    THEN [res |-> "InvalidStateError", self |-> self]
    ELSE [res |-> "Ok", self |-> [self EXCEPT !.state = "Stopped", !.stop_time = Some(time)]]

\* helpers::elapsed
elapsed(start_time, stop_time) ==
    IF start_time # None /\ stop_time # None
    THEN IF stop_time[1] >= start_time[1]
         THEN Some((stop_time[1] - start_time[1]) \div TicksPerSecond)
         ELSE None
    ELSE None

\* faulty variant: a stopped session is measured against the clock, too
elapsed_time_running(self, time) ==
    CASE self.state = "Created" -> None
      [] OTHER -> elapsed(self.start_time, Some(time))

\* Session::elapsed_time
elapsed_time(self, time) ==
    CASE self.state = "Created" -> None
      [] self.state = "Started" -> elapsed(self.start_time, Some(time))
      [] self.state = "Stopped" -> elapsed(self.start_time, self.stop_time)

\* Option::unwrap_or
UnwrapOr(opt, default) == IF opt = None THEN default ELSE opt[1]

\* From<&Session> for SessionStats
SessionStats(session, time) ==
    [id |-> session.id, name |-> session.name, state |-> session.state,
     start_time |-> session.start_time, stop_time |-> session.stop_time,
     elapsed_time |-> UnwrapOr(elapsed_time(session, time), 0)]

NoReply == [op |-> "none", id |-> NoneVal, res |-> "none", val |-> None]

DataIdle ==
    /\ sessions = NewData
    /\ now = 0
    /\ reply = NoReply

\* no handshake is gathering candidates
GatherIdle ==
    /\ gather_pc = "off"
    /\ candidates = <<>>
    /\ candidates_ready = 0
    /\ reported = <<>>
    /\ next_candidate = 0

\* no read of the endpoint adapter was made
NoRead == [remaining |-> 0, res |-> "none", filled |-> 0]

AdapterIdle ==
    /\ rw_packets = <<>>
    /\ rw_read = NoRead

\* no handshake was made and no SRTP session built
NoDtls == [ctx |-> "none", key |-> <<>>]

DtlsIdle == dtls = NoDtls

\* no close is under way
CloseIdle ==
    /\ closing = {}
    /\ close_returned = {}
    /\ pending = <<>>

\* no pool
PoolIdle ==
    /\ pool_count = <<>>
    /\ pool_call = <<>>
    /\ pool_done = 0

ExtraIdle == AdapterIdle /\ DtlsIdle /\ CloseIdle /\ PoolIdle

\* create_session: self.data.add_session(session)
AddSession ==
    /\ \E id \in SessionIds, name \in SessionNames :
         /\ sessions' = add_session(sessions, NewSession(id, name))
         /\ reply' = [op |-> "add_session", id |-> id, res |-> "Ok", val |-> Some(name)]
    /\ UNCHANGED <<now, sessionVars, muxVars, sdpVars, keyVars, gatherVars, extraVars>>

\* self.data.get_session(&session_id)
GetSession ==
    /\ \E id \in SessionIds :
         LET r == get_session(sessions, id)
         IN  reply' = [op |-> "get_session", id |-> id, res |-> r.res,
                       val |-> IF r.res = "Ok" THEN Some(r.val) ELSE None]
    /\ UNCHANGED <<sessions, now, sessionVars, muxVars, sdpVars, keyVars, gatherVars, extraVars>>

\* call_session!(self, session_id, start)
StartSession ==
    /\ \E id \in SessionIds :
         IF id \notin DOMAIN sessions
         THEN /\ reply' = [op |-> "start", id |-> id, res |-> "InvalidSessionError",
                           val |-> None]
              /\ sessions' = sessions
         ELSE LET r == session_start(sessions[id], now)
              IN  /\ reply' = [op |-> "start", id |-> id, res |-> r.res, val |-> None]
                  /\ sessions' = [sessions EXCEPT ![id] = r.self]
    /\ UNCHANGED <<now, sessionVars, muxVars, sdpVars, keyVars, gatherVars, extraVars>>

\* call_session!(self, session_id, stop)
StopSession ==
    /\ \E id \in SessionIds :
         IF id \notin DOMAIN sessions
         THEN /\ reply' = [op |-> "stop", id |-> id, res |-> "InvalidSessionError",
                           val |-> None]
              /\ sessions' = sessions
         ELSE LET r == session_stop(sessions[id], now)
              IN  /\ reply' = [op |-> "stop", id |-> id, res |-> r.res, val |-> None]
                  /\ sessions' = [sessions EXCEPT ![id] = r.self]
    /\ UNCHANGED <<now, sessionVars, muxVars, sdpVars, keyVars, gatherVars, extraVars>>

\* call_session!(self, session_id, get_stats)
GetStats ==
    /\ \E id \in SessionIds :
         IF id \notin DOMAIN sessions
         THEN reply' = [op |-> "get_stats", id |-> id, res |-> "InvalidSessionError",
                        val |-> None]
         ELSE reply' = [op |-> "get_stats", id |-> id, res |-> "Ok",
                        val |-> Some(SessionStats(sessions[id], now))]
    /\ UNCHANGED <<sessions, now, sessionVars, muxVars, sdpVars, keyVars, gatherVars, extraVars>>

\* the system clock advances
Tick ==
    /\ now < MaxClock
    /\ now' = now + 1
    /\ UNCHANGED <<sessions, reply, sessionVars, muxVars, sdpVars, keyVars, gatherVars, extraVars>>

(***************************************************************************)
(* SpecKeys: extract_srtp_info applied to every profile and material.      *)
(***************************************************************************)
\* exported keying materials: buffers of 2 * SRTP_MAX_KEY_LEN distinct bytes
Materials ==
    { [i \in 1..(2 * SRTP_MAX_KEY_LEN) |-> (seed + stride * (i - 1)) % 256] :
        seed \in 0..MaxSeed, stride \in {1, 3} }

\* what ssl.selected_srtp_profile() can return
SelectedProfiles ==
    {"SRTP_AES128_CM_SHA1_80", "SRTP_AEAD_AES_128_GCM", "SRTP_AES128_CM_SHA1_32", "none"}

NoKeys == [res |-> "not called", protection_profile |-> None]

KeyIdle ==
    /\ key_in = [profile |-> "none", material |-> <<>>, fail |-> "none"]
    /\ key_out = NoKeys

\* self.extract_srtp_info(ssl) on a handler that has no protection profile yet
ExtractSrtpInfo ==
    /\ key_out = NoKeys
    /\ key_in.material # <<>>
    /\ LET S0 == [ph |-> NewProxyHandler, sent |-> <<>>, steps |-> <<>>,
                  task |-> "idle", res |-> "Ok"]
           S1 == extract_srtp_info(S0, key_in.profile, key_in.material,
                                   [NoEnv EXCEPT !.fail = key_in.fail])
       IN  key_out' = [res |-> S1.res, protection_profile |-> S1.ph.protection_profile]
    /\ UNCHANGED <<key_in, sessionVars, muxVars, sdpVars, dataVars, gatherVars, extraVars>>

InitKeys ==
    /\ SessionInit /\ MuxIdle /\ SdpIdle /\ DataIdle /\ GatherIdle /\ ExtraIdle
    /\ key_in \in [profile : SelectedProfiles, material : Materials, fail : {"none", "export"}]
    /\ key_out = NoKeys

NextKeys == ExtractSrtpInfo

SpecKeys == InitKeys /\ [][NextKeys]_vars

(***************************************************************************)
(* SpecGather: the candidate gathering of start_handshake, step by step:   *)
(* the signaling task against the candidate callback of the ICE agent.     *)
(***************************************************************************)
\* the local candidates an agent can discover
LocalCandidates == {"host", "srflx", "prflx", "relay"}

\* the sentinel of on_candidate: the callback was called with None
Sentinel == "<None>"

\* the agent has called the callback with None
SentinelReported == reported # <<>> /\ reported[Len(reported)] = Sentinel

\* agent.gather_candidates().await
GatherCandidates ==
    /\ gather_pc = "gather"
    /\ gather_pc' \in {"wait", "failed"}
    /\ UNCHANGED <<candidates, candidates_ready, reported, next_candidate,
                   sessionVars, muxVars, sdpVars, keyVars, dataVars, extraVars>>

\* the callback of on_candidate called with Some(candidate)
OnCandidate ==
    /\ gather_pc \in {"wait", "done"}
    /\ ~SentinelReported
    /\ Len(reported) < MaxCand
    /\ \E c \in LocalCandidates :
         /\ \A i \in 1..Len(reported) : reported[i] # c
         /\ reported' = Append(reported, c)
         /\ candidates' = Append(candidates, c)
    /\ UNCHANGED <<gather_pc, candidates_ready, next_candidate,
                   sessionVars, muxVars, sdpVars, keyVars, dataVars, extraVars>>

\* the callback of on_candidate called with None: tx.send(())
OnCandidateNone ==
    /\ gather_pc \in {"wait", "done"}
    /\ ~SentinelReported
    /\ reported' = Append(reported, Sentinel)
    /\ candidates_ready' = 1
    /\ UNCHANGED <<gather_pc, candidates, next_candidate,
                   sessionVars, muxVars, sdpVars, keyVars, dataVars, extraVars>>

\* faulty variant: the candidate list is taken without waiting for the channel
RecvReadyNoWait ==
    /\ gather_pc = "wait"
    /\ candidates_ready' = 0
    /\ gather_pc' = "send"
    /\ next_candidate' = 1
    /\ UNCHANGED <<candidates, reported, sessionVars, muxVars, sdpVars, keyVars, dataVars, extraVars>>

\* candidates_ready.recv().await returns; candidates.lock().await
RecvReady ==
    /\ gather_pc = "wait"
    /\ candidates_ready > 0
    /\ candidates_ready' = candidates_ready - 1
    /\ gather_pc' = "send"
    /\ next_candidate' = 1
    /\ UNCHANGED <<candidates, reported, sessionVars, muxVars, sdpVars, keyVars, dataVars, extraVars>>

\* one iteration of the loop over candidate_list: self.send(...).await?
SendCandidate ==
    /\ gather_pc = "send"
    /\ next_candidate <= Len(candidates)
    /\ \/ /\ sent' = Append(sent, LocalCandidate(candidates[next_candidate]))
          /\ next_candidate' = next_candidate + 1
          /\ UNCHANGED gather_pc
       \/ /\ gather_pc' = "failed"
          /\ UNCHANGED <<sent, next_candidate>>
    /\ UNCHANGED <<candidates, candidates_ready, reported,
                   ph, steps, task, last, inbox, stamp, early, rejected, srtp_n,
                   muxVars, sdpVars, keyVars, dataVars, extraVars>>

\* the loop is over: start_handshake returns Ok(())
HandshakeComplete ==
    /\ gather_pc = "send"
    /\ next_candidate > Len(candidates)
    /\ gather_pc' = "done"
    /\ UNCHANGED <<candidates, candidates_ready, reported, next_candidate,
                   sessionVars, muxVars, sdpVars, keyVars, dataVars, extraVars>>

\* start_handshake has registered the callback and is about to gather
InitGather ==
    /\ SessionInit /\ MuxIdle /\ SdpIdle /\ KeyIdle /\ DataIdle /\ ExtraIdle
    /\ gather_pc = "gather"
    /\ candidates = <<>>
    /\ candidates_ready = 0
    /\ reported = <<>>
    /\ next_candidate = 0

NextGather ==
    \/ GatherCandidates
    \/ OnCandidate
    \/ OnCandidateNone
    \/ RecvReady
    \/ SendCandidate
    \/ HandshakeComplete

SpecGather == InitGather /\ [][NextGather]_vars

(***************************************************************************)
(* SpecAdapter: the reads of EndpointReadWrite (endpoint_read_write.rs)    *)
(* from the buffer of its endpoint.                                        *)
(***************************************************************************)
\* the size of the array poll_read receives into
ADAPTER_BUF == 1400

\* the buffer size of the Mux: no packet from the connection is longer
RECEIVE_MTU == 1460

\* the lengths of the packets the Mux hands to the endpoint
PacketLens == {60, ADAPTER_BUF, ADAPTER_BUF + 1, RECEIVE_MTU}

\* the space left in the caller's ReadBuf
ReadCaps == {48, ADAPTER_BUF, 2048}

\* Endpoint::recv (Buffer::read) into a slice of the given size: the head
\* packet is taken; one longer than the slice is reported as a short buffer
\* or cut to the slice
endpoint_recv_into(packets, size) ==
    IF packets = <<>> THEN {[res |-> "Pending", n |-> 0, packets |-> packets]}
    ELSE IF Head(packets) <= size
    THEN {[res |-> "Ok", n |-> Head(packets), packets |-> Tail(packets)]}
    ELSE {[res |-> "Err", n |-> 0, packets |-> Tail(packets)],
          [res |-> "Ok", n |-> size, packets |-> Tail(packets)]}

\* ReadBuf::put_slice: panics when the slice does not fit
put_slice(remaining, n) ==
    IF n > remaining THEN [res |-> "panic", filled |-> 0]
    ELSE [res |-> "Ok", filled |-> n]

\* EndpointReadWrite::poll_read
poll_read(packets, remaining) ==
    { CASE r.res = "Pending" -> [res |-> "Pending", filled |-> 0, packets |-> r.packets]
        [] r.res = "Ok" -> [res |-> put_slice(remaining, r.n).res,
                            filled |-> put_slice(remaining, r.n).filled,
                            packets |-> r.packets]
        [] r.res = "Err" -> [res |-> "Unsupported", filled |-> 0, packets |-> r.packets]
      : r \in endpoint_recv_into(packets, ADAPTER_BUF) }

\* the read loop of the Mux writes a packet into the endpoint's buffer
AdapterPacketIn ==
    /\ rw_read.res # "panic"
    /\ Len(rw_packets) < MaxPackets
    /\ \E n \in PacketLens : rw_packets' = Append(rw_packets, n)
    /\ UNCHANGED <<rw_read, sessionVars, muxVars, sdpVars, keyVars, dataVars, gatherVars, dtlsVars,
                   closeVars, poolVars>>

\* the DTLS stream polls the adapter for a read
PollRead ==
    /\ rw_read.res # "panic"
    /\ \E remaining \in ReadCaps : \E o \in poll_read(rw_packets, remaining) :
         /\ rw_read' = [remaining |-> remaining, res |-> o.res, filled |-> o.filled]
         /\ rw_packets' = o.packets
    /\ UNCHANGED <<sessionVars, muxVars, sdpVars, keyVars, dataVars, gatherVars, dtlsVars,
                   closeVars, poolVars>>

InitAdapter ==
    /\ SessionInit /\ MuxIdle /\ SdpIdle /\ KeyIdle /\ DataIdle /\ GatherIdle
    /\ AdapterIdle /\ DtlsIdle /\ CloseIdle /\ PoolIdle

NextAdapter ==
    \/ AdapterPacketIn
    \/ PollRead

SpecAdapter == InitAdapter /\ [][NextAdapter]_vars

(***************************************************************************)
(* SpecClose: Endpoint::close in its two steps, against registration and   *)
(* the read loop of the Mux (match, then write) and the reader.            *)
(***************************************************************************)
\* the packets the read loop takes while endpoints are closed
MaxClosePackets == 1

\* the read loop takes a packet from the connection and finds its endpoint
\* under the lock of the registry
DispatchFind ==
    /\ pending = <<>>
    /\ Len(dispatched) < MaxClosePackets
    /\ \E b \in Bytes :
         pending' = <<[pkt |-> [seq |-> Len(dispatched) + 1, b |-> b],
                       hit |-> FirstMatch(endpoints, ep, b)]>>
    /\ UNCHANGED <<closing, close_returned, muxVars, sessionVars, sdpVars, keyVars,
                   dataVars, gatherVars, adapterVars, dtlsVars, poolVars>>

\* the read loop writes the packet into the buffer of the endpoint it found
DispatchWrite ==
    /\ pending # <<>>
    /\ LET p   == pending[1].pkt
           hit == pending[1].hit
           to  == IF hit # 0 /\ ~ep[hit].closed THEN hit ELSE 0
       IN  /\ ep' = IF hit = 0 THEN ep ELSE [ep EXCEPT ![hit] = BufferWrite(@, p)]
           /\ dispatched' = Append(dispatched, [pkt |-> p, to |-> to])
    /\ pending' = <<>>
    /\ UNCHANGED <<endpoints, closing, close_returned, sessionVars, sdpVars, keyVars,
                   dataVars, gatherVars, adapterVars, dtlsVars, poolVars>>

\* faulty variant: close goes on to the registry and leaves the buffer open
CloseBufferSkipped ==
    /\ \E id \in 1..Len(ep) :
         /\ id \notin closing \cup close_returned
         /\ closing' = closing \cup {id}
    /\ UNCHANGED <<muxVars, close_returned, pending, sessionVars, sdpVars, keyVars,
                   dataVars, gatherVars, adapterVars, dtlsVars, poolVars>>

\* Endpoint::close, first step: self.buffer.close().await; every endpoint
\* is closed once
CloseBuffer ==
    /\ \E id \in 1..Len(ep) :
         /\ id \notin closing \cup close_returned
         /\ ep' = [ep EXCEPT ![id].closed = TRUE]
         /\ closing' = closing \cup {id}
    /\ UNCHANGED <<endpoints, dispatched, close_returned, pending, sessionVars, sdpVars,
                   keyVars, dataVars, gatherVars, adapterVars, dtlsVars, poolVars>>

\* Endpoint::close, second step: the registry is locked, the id removed, and
\* close returns
CloseRemove ==
    /\ \E id \in closing :
         /\ endpoints' = endpoints \ {id}
         /\ closing' = closing \ {id}
         /\ close_returned' = close_returned \cup {id}
    /\ UNCHANGED <<ep, dispatched, pending, sessionVars, sdpVars, keyVars,
                   dataVars, gatherVars, adapterVars, dtlsVars, poolVars>>

InitClose ==
    /\ SessionInit /\ MuxInit /\ SdpIdle /\ KeyIdle /\ DataIdle /\ GatherIdle /\ ExtraIdle

NextClose ==
    \/ NewEndpoint
    \/ DispatchFind
    \/ DispatchWrite
    \/ RecvCall
    \/ RecvReturn
    \/ CloseBuffer
    \/ CloseRemove

SpecClose == InitClose /\ [][NextClose]_vars

(***************************************************************************)
(* SpecPool: WebRTCPool (src/src/webrtc_pool.rs) and its concurrent        *)
(* callers.                                                                *)
(***************************************************************************)
MaxFactories == 2
MaxCallers == 3
MaxCalls == 4

Callers == 1..MaxCallers

\* WebRTCPool::new(factory_count): ids 0 .. factory_count - 1, every count 0
NewPool(factory_count) == [id \in 0..(factory_count - 1) |-> 0]

NotCalling == [pc |-> "idle", item |-> 0]

\* iter.min_by on the counts loaded: an item whose count is the least
MinItems(counts) ==
    {x \in DOMAIN counts : \A y \in DOMAIN counts : counts[x] <= counts[y]}

\* the calls that hold an item and have not yet added to its count
InFlight == {c \in Callers : pool_call[c].pc = "chosen"}

\* create_peer_connection_manager up to the item it chose: min_by over the
\* counts it loads
PoolChoose ==
    /\ pool_done + Cardinality(InFlight) < MaxCalls
    /\ \E c \in Callers : \E item \in MinItems(pool_count) :
         /\ pool_call[c].pc = "idle"
         /\ pool_call' = [pool_call EXCEPT ![c] = [pc |-> "chosen", item |-> item]]
    /\ UNCHANGED <<pool_count, pool_done, sessionVars, muxVars, sdpVars, keyVars,
                   dataVars, gatherVars, adapterVars, dtlsVars, closeVars>>

\* count.fetch_add(1) on the chosen item; PeerConnectionManager::new and return
PoolAdd ==
    /\ \E c \in Callers :
         /\ pool_call[c].pc = "chosen"
         /\ pool_count' = [pool_count EXCEPT ![pool_call[c].item] = @ + 1]
         /\ pool_call' = [pool_call EXCEPT ![c] = NotCalling]
    /\ pool_done' = pool_done + 1
    /\ UNCHANGED <<sessionVars, muxVars, sdpVars, keyVars,
                   dataVars, gatherVars, adapterVars, dtlsVars, closeVars>>

InitPool ==
    /\ SessionInit /\ MuxIdle /\ SdpIdle /\ KeyIdle /\ DataIdle /\ GatherIdle
    /\ AdapterIdle /\ DtlsIdle /\ CloseIdle
    /\ pool_count \in {NewPool(n) : n \in 1..MaxFactories}
    /\ pool_call = [c \in Callers |-> NotCalling]
    /\ pool_done = 0

NextPool ==
    \/ PoolChoose
    \/ PoolAdd

SpecPool == InitPool /\ [][NextPool]_vars

InitSessions == SessionInit /\ MuxIdle /\ SdpIdle /\ KeyIdle /\ DataIdle /\ GatherIdle /\ ExtraIdle

NextSessions ==
    \/ AddSession
    \/ GetSession
    \/ StartSession
    \/ StopSession
    \/ GetStats
    \/ Tick

SpecSessions == InitSessions /\ [][NextSessions]_vars

InitMux == SessionInit /\ MuxInit /\ SdpIdle /\ KeyIdle /\ DataIdle /\ GatherIdle /\ ExtraIdle

NextMux ==
    \/ NewEndpoint
    \/ ReadLoop
    \/ RecvCall
    \/ RecvReturn
    \/ Close

SpecMux == InitMux /\ [][NextMux]_vars

Init == SessionInit /\ MuxIdle /\ SdpIdle /\ KeyIdle /\ DataIdle /\ GatherIdle /\ ExtraIdle

Next ==
    \/ Arrive
    \/ HandleMessage
    \/ SrtpPacket
    \/ SrtpFail
    \/ WsReadError
    \/ WsClosed

Spec == Init /\ [][Next]_vars

InitSdp == SessionInit /\ MuxIdle /\ KeyIdle /\ DataIdle /\ GatherIdle /\ ExtraIdle /\ sdp_in \in Offers /\ sdp_cfg = NoConfig
           /\ sdp_out = NoAnswer /\ sdp_pc = "offer"

NextSdp ==
    \/ ParseConfig
    \/ AnswerFromConfig
    \/ AnswerAnyMode

SpecSdp == InitSdp /\ [][NextSdp]_vars

(***************************************************************************)
(* Properties of the signaling state machine (checked under Spec).         *)
(***************************************************************************)
Rank(ms) == CASE ms = "Offer" -> 0 [] ms = "Candidate" -> 1 [] ms = "CandidatesEnd" -> 2

Count(s, S) == Cardinality({i \in 1..Len(s) : s[i] \in S})

IceSteps == {"ice_dial", "ice_accept"}
DtlsSteps == {"dtls_accept", "dtls_connect"}

AnswersSent == Count(SeqMap(LAMBDA m : m.kind, sent), {"answer"})

\* this step is handle_message returning (or suspending) on an inbound message
HandledStep == task = "idle" /\ task' # "closed" /\ last'.json # "read-error" /\ last' # last

\* C1: whatever inbound messages are handled, well-formed, malformed or
\* failing, the message state never moves back: Offer -> Candidate ->
\* CandidatesEnd.
C1_MessageStateMonotonic ==
    [][Rank(ph'.message_state) >= Rank(ph.message_state)]_vars

C1_Witness ==
    /\ ph.message_state = "CandidatesEnd"
    /\ last.state = "CandidatesEnd"
    /\ last.json = "garbage"

\* C2: an empty candidate handled in the Candidate state of a session that
\* has its ICE agent (the answer write not failing) moves the session to CandidatesEnd with exactly one answer
\* synthesized and sent and exactly one ICE connect; and no session ever sends
\* a second answer or connects ICE a second time.
C2_EmptyCandidateAnswersOnce ==
    /\ [](AnswersSent <= 1 /\ Count(steps, IceSteps) <= 1)
    /\ [][(/\ HandledStep
           /\ ph.message_state = "Candidate"
           /\ ph.ice_agent # None
           /\ last'.json = "candidate"
           /\ last'.candidate = ""
           /\ last'.res # "WebSocketWriteError")
          => (/\ ph'.message_state = "CandidatesEnd"
              /\ Count(steps', {"create_answer"}) = 1
              /\ AnswersSent' = 1
              /\ Count(steps', IceSteps) = 1)]_vars

\* C3: a message handled in CandidatesEnd, a second offer included, is
\* ignored: handle_message returns Ok, nothing is sent, no handshake step is
\* performed and no field of the session changes.
C3_IgnoredInCandidatesEnd ==
    [][(HandledStep /\ ph.message_state = "CandidatesEnd")
       => (/\ last'.res = "Ok"
           /\ ph' = ph
           /\ sent' = sent
           /\ steps' = steps
           /\ task' = "idle"
           /\ srtp_n' = srtp_n)]_vars

C3_Witness ==
    /\ last.state = "CandidatesEnd"
    /\ last.json = "offer"
    /\ last.res = "Ok"
    /\ AnswersSent = 1

\* C4: a candidate message handled in the Offer state is rejected with an
\* error and changes nothing (state Offer, no ICE agent, nothing sent), so the
\* session is still the fresh one that accepts a valid offer.
C4_CandidateBeforeOffer ==
    /\ [](ph.message_state = "Offer"
          => (ph = NewProxyHandler /\ sent = <<>> /\ steps = <<>>
              /\ task \in {"idle", "closed"}))
    /\ [][(HandledStep /\ ph.message_state = "Offer" /\ last'.json = "candidate")
          => (/\ last'.res = "ParseFailed"
              /\ ph' = ph
              /\ ph'.ice_agent = None
              /\ sent' = sent
              /\ steps' = steps
              /\ task' = "idle")]_vars

C4_Witness ==
    /\ early
    /\ ph.message_state = "Candidate"
    /\ last.json = "offer"
    /\ last.state = "Offer"
    /\ last.res = "Ok"
    /\ ph.offer # None

ConfigMode == ph.sdp_config[1].active_mode

\* the steps of kind K are all the step x
AllSteps(K, x) == \A i \in 1..Len(steps) : steps[i] \in K => steps[i] = x

IceBeforeDtls ==
    \A i, j \in 1..Len(steps) : (steps[i] \in IceSteps /\ steps[j] \in DtlsSteps) => i < j

\* C5 as stated: Active makes the gateway dial ICE and then take the DTLS
\* client role (connect); Passive and ActivePassive make it accept ICE and
\* then take the DTLS server role (accept).
C5_AsStated ==
    steps # <<>> =>
        /\ IceBeforeDtls
        /\ ConfigMode = "Active"
             => (AllSteps(IceSteps, "ice_dial") /\ AllSteps(DtlsSteps, "dtls_connect"))
        /\ ConfigMode # "Active"
             => (AllSteps(IceSteps, "ice_accept") /\ AllSteps(DtlsSteps, "dtls_accept"))

\* C5 (amended): Active makes the gateway dial ICE and then take the DTLS
\* server role (accept); Passive and ActivePassive make it accept ICE and then
\* take the DTLS client role (connect).
C5_SetupDrivenRole ==
    steps # <<>> =>
        /\ IceBeforeDtls
        /\ ConfigMode = "Active"
             => (AllSteps(IceSteps, "ice_dial") /\ AllSteps(DtlsSteps, "dtls_accept"))
        /\ ConfigMode # "Active"
             => (AllSteps(IceSteps, "ice_accept") /\ AllSteps(DtlsSteps, "dtls_connect"))

C5_Witness ==
    /\ ph.sdp_config # None
    /\ ConfigMode = "Active"
    /\ Count(steps, {"ice_dial"}) = 1
    /\ Count(steps, {"dtls_accept"}) = 1
    /\ task = "srtp"

(***************************************************************************)
(* Properties of the packet demultiplexer (checked under SpecMux).         *)
(***************************************************************************)
\* what endpoint e has been given so far: returned by recv, then still buffered
Held(e) == e.got \o e.buffer

\* where packet p is held: endpoint and position
Places(p) ==
    {pl \in (1..Len(ep)) \X (1..Len(dispatched)) :
        pl[2] <= Len(Held(ep[pl[1]])) /\ Held(ep[pl[1]])[pl[2]] = p}

\* the packets the read loop handed to endpoint id, in receipt order
Delivered(id) ==
    LET To(d) == d.to = id
    IN  SeqMap(LAMBDA d : d.pkt, SelectSeq(dispatched, To))

\* this step is one iteration of the read loop, on the packet Arrived
Dispatching == dispatched' # dispatched
Arrived == dispatched'[Len(dispatched')]

\* the registered endpoints whose predicate matches first byte b
MatchingNow(b) == {id \in endpoints : Matches(ep[id].match_fn, b)}

C8_UnmatchedDropped ==
    /\ [](\A i \in 1..Len(dispatched) :
            /\ dispatched[i].to = 0 => Places(dispatched[i].pkt) = {}
            /\ dispatched[i].to # 0 =>
                 Places(dispatched[i].pkt) \subseteq {dispatched[i].to} \X (1..Len(dispatched))
            /\ dispatched[i].to # 0 => Places(dispatched[i].pkt) # {})
    /\ [][(Dispatching /\ MatchingNow(Arrived.pkt.b) = {})
          => (Arrived.to = 0 /\ ep' = ep /\ endpoints' = endpoints)]_vars

C8_Witness ==
    /\ Len(dispatched) = 2
    /\ dispatched[1].to = 0
    /\ dispatched[2].to # 0
    /\ ep[dispatched[2].to].got = <<dispatched[2].pkt>>

AnswerKey(k) == IF k \in {"sendonly", "sendrecv"} THEN "recvonly" ELSE k

\* C10: the answer to an offer of N media sections has N media sections, in
\* the offer's order, and each has as many attributes as its offer section,
\* attribute by attribute in the offer's order.
C10_AnswerKeepsMediaShape ==
    Answered =>
        LET om == sdp_in.media_descriptions
            am == sdp_out.media_descriptions
        IN  /\ Len(am) = Len(om)
            /\ \A i \in 1..Len(om) :
                 /\ am[i].media_name = om[i].media_name
                 /\ Len(am[i].attributes) = Len(om[i].attributes)
                 /\ \A j \in 1..Len(om[i].attributes) :
                      am[i].attributes[j].key = AnswerKey(om[i].attributes[j].key)

C10_Witness ==
    /\ Answered
    /\ Len(sdp_in.media_descriptions) = 2
    /\ Len(sdp_out.media_descriptions) = 2
    /\ sdp_in.media_descriptions[1].media_name # sdp_in.media_descriptions[2].media_name
    /\ Len(sdp_in.media_descriptions[1].attributes) >= 2
    /\ Len(sdp_in.media_descriptions[1].attributes)
         # Len(sdp_in.media_descriptions[2].attributes)
    /\ \E j \in 1..Len(sdp_in.media_descriptions[1].attributes) :
         sdp_in.media_descriptions[1].attributes[j].key = "fingerprint"

\* the attributes of all media sections of sdp, in document order
MediaAttrs(sdp) == Flatten(SeqMap(LAMBDA m : m.attributes, sdp.media_descriptions))

\* attribute positions of the offer: media section i, attribute j
OfferPositions ==
    UNION { {<<i, j>> : j \in 1..Len(sdp_in.media_descriptions[i].attributes)} :
              i \in 1..Len(sdp_in.media_descriptions) }

OfferAttrAt(p) == sdp_in.media_descriptions[p[1]].attributes[p[2]]
AnswerAttrAt(p) == sdp_out.media_descriptions[p[1]].attributes[p[2]]

RewrittenKeys == {"sendonly", "sendrecv", "ice-ufrag", "ice-pwd", "fingerprint", "setup"}

\* C11: in every media section of the answer, a sendonly or sendrecv
\* attribute of the offer has become recvonly (without value), and an
\* attribute other than sendonly, sendrecv, ice-ufrag, ice-pwd, fingerprint
\* and setup stands at its place with the offer's key and value.
C11_DirectionAndPassThrough ==
    Answered =>
        \A p \in OfferPositions :
            /\ OfferAttrAt(p).key \in {"sendonly", "sendrecv"}
                 => AnswerAttrAt(p) = Attr("recvonly", NoneVal)
            /\ OfferAttrAt(p).key \notin RewrittenKeys
                 => AnswerAttrAt(p) = OfferAttrAt(p)

C11_Witness ==
    /\ Answered
    /\ \E p, q, r \in OfferPositions :
         /\ OfferAttrAt(p).key = "sendonly"
         /\ OfferAttrAt(q).key = "sendrecv"
         /\ OfferAttrAt(r) = Attr("mid", "1")
         /\ AnswerAttrAt(r) = Attr("mid", "1")

\* the setup values of the offer that parse_sdp_config reads, in document order
OfferSetups ==
    SelectSeq(MediaAttrs(sdp_in), LAMBDA a : a.key = "setup" /\ a.value # NoneVal)

\* the role the offer asks for: its deciding setup value
OfferSetup == OfferSetups[Len(OfferSetups)].value

Complement(setup) ==
    CASE setup = "active"  -> "passive"
      [] setup = "passive" -> "active"
      [] setup = "actpass" -> "active"

\* C12: in the answer made from a parsed offer whose role is active, passive
\* or actpass, every setup attribute of every media section carries the
\* complement of that role: active gives passive, passive gives active,
\* actpass gives active; so two sections offering actpass are both answered
\* with setup:active.
C12_SetupComplement ==
    (sdp_pc = "answered" /\ OfferSetup \in {"active", "passive", "actpass"}) =>
        \A p \in OfferPositions :
            OfferAttrAt(p).key = "setup"
                => AnswerAttrAt(p) = Attr("setup", Complement(OfferSetup))

C12_Witness ==
    /\ sdp_pc = "answered"
    /\ sdp_in.media_descriptions = <<AudioMedia, VideoMedia>>
    /\ sdp_cfg.active_mode = "ActivePassive"
    /\ \A i \in 1..2 : \E j \in 1..Len(sdp_out.media_descriptions[i].attributes) :
         sdp_out.media_descriptions[i].attributes[j] = Attr("setup", "active")

\* every attribute of sdp: the session-level ones, then those of the media sections
AllAttrs(sdp) == sdp.attributes \o MediaAttrs(sdp)

\* C13: every ice-ufrag and every ice-pwd attribute of the answer made from a
\* parsed offer, at session level or in a media section, carries the
\* gateway's own credentials.
C13_AnswerCredentialsAreLocal ==
    sdp_pc = "answered" =>
        \A i \in 1..Len(AllAttrs(sdp_out)) :
            LET a == AllAttrs(sdp_out)[i]
            IN  /\ a.key = "ice-ufrag" => a.value = LocalUfrag
                /\ a.key = "ice-pwd" => a.value = LocalPwd

\* the values that the media sections of the offer carry for key
OfferValues(key) ==
    LET as == MediaAttrs(sdp_in)
    IN  {as[i].value : i \in {j \in 1..Len(as) : as[j].key = key /\ as[j].value # NoneVal}}

\* the ActiveMode a setup value stands for
RoleOf(setup) ==
    CASE setup = "active"  -> "Active"
      [] setup = "passive" -> "Passive"
      [] OTHER             -> "ActivePassive"

Parsed == sdp_pc \in {"parsed", "answered"}

\* the messages of the InvalidSDP errors of parse_sdp_config
InvalidSDP == {"missing ice username", "no active mode found"}

\* C14: parse_sdp_config fails with InvalidSDP exactly when the media
\* sections carry no ice-ufrag value, no ice-pwd value or no setup value;
\* otherwise it returns credentials and an active mode found in the media
\* sections and the fingerprint it was given.
C14_ParseSdpConfig ==
    Parsed =>
        IF OfferValues("ice-ufrag") = {} \/ OfferValues("ice-pwd") = {}
           \/ OfferValues("setup") = {}
        THEN sdp_cfg.err \in InvalidSDP
        ELSE /\ sdp_cfg.err = ""
             /\ sdp_cfg.remote_ice_username \in OfferValues("ice-ufrag")
             /\ sdp_cfg.remote_ice_password \in OfferValues("ice-pwd")
             /\ sdp_cfg.active_mode \in {RoleOf(v) : v \in OfferValues("setup")}
             /\ sdp_cfg.fingerprint = LocalFingerprint

\* an offer with both credentials and a setup attribute without value is rejected
C14_Witness ==
    /\ Parsed
    /\ sdp_cfg.err = "no active mode found"
    /\ OfferValues("ice-ufrag") # {} /\ OfferValues("ice-pwd") # {}
    /\ \E i \in 1..Len(MediaAttrs(sdp_in)) : MediaAttrs(sdp_in)[i] = Attr("setup", NoneVal)

\* C15: an offer with both ICE credentials whose deciding setup value is none
\* of active, passive and actpass is accepted by parse_sdp_config with
\* active_mode = ActivePassive; its answer says setup:active and the ICE
\* connection is accepted, not dialled.
C15_UnknownSetupIsActivePassive ==
    (/\ Parsed
     /\ OfferValues("ice-ufrag") # {}
     /\ OfferValues("ice-pwd") # {}
     /\ OfferValues("setup") # {}
     /\ OfferSetup \notin {"active", "passive", "actpass"}) =>
        /\ sdp_cfg.err = ""
        /\ sdp_cfg.active_mode = "ActivePassive"
        /\ IceCall(sdp_cfg.active_mode = "Active") = "ice_accept"
        /\ sdp_pc = "answered" =>
             \A p \in OfferPositions :
                 OfferAttrAt(p).key = "setup" => AnswerAttrAt(p) = Attr("setup", "active")

C15_Witness ==
    /\ sdp_pc = "answered"
    /\ OfferSetup = "holdconn"
    /\ Cardinality(OfferValues("setup")) = 2
    /\ \E p \in OfferPositions : AnswerAttrAt(p) = Attr("setup", "active")

(***************************************************************************)
(* Properties of the SRTP key derivation (checked under SpecKeys).         *)
(***************************************************************************)
\* master key and master salt lengths of the supported profiles
KeyLength == 16
SaltLength(profile) == IF profile = "SRTP_AES128_CM_SHA1_80" THEN 14 ELSE 12

\* the four blocks of an export laid out [client_key][server_key][client_salt][server_salt]
ExportBlock(n) ==
    LET k == KeyLength
        s == SaltLength(key_in.profile)
        m == key_in.material
    IN  CASE n = "client_key"  -> SubSeq(m, 1, k)
          [] n = "server_key"  -> SubSeq(m, k + 1, 2 * k)
          [] n = "client_salt" -> SubSeq(m, 2 * k + 1, 2 * k + s)
          [] n = "server_salt" -> SubSeq(m, 2 * k + s + 1, 2 * k + 2 * s)

\* C16: for SRTP_AES128_CM_SHA1_80 (16/14) and SRTP_AEAD_AES_128_GCM (16/12)
\* and any export laid out [client_key][server_key][client_salt][server_salt],
\* extract_srtp_info succeeds and stores client_key = client key || client
\* salt and server_key = server key || server salt, each key + salt bytes long.
C16_KeyBlocks ==
    (/\ key_out.res # "not called"
     /\ key_in.profile \in {"SRTP_AES128_CM_SHA1_80", "SRTP_AEAD_AES_128_GCM"}
     /\ key_in.fail = "none") =>
        /\ key_out.res = "Ok"
        /\ key_out.protection_profile # None
        /\ LET pp == key_out.protection_profile[1]
           IN  /\ pp.kind = key_in.profile
               /\ pp.client_key = ExportBlock("client_key") \o ExportBlock("client_salt")
               /\ pp.server_key = ExportBlock("server_key") \o ExportBlock("server_salt")
               /\ Len(pp.client_key) = KeyLength + SaltLength(key_in.profile)
               /\ Len(pp.server_key) = KeyLength + SaltLength(key_in.profile)

C16_Witness ==
    /\ key_out.res = "Ok"
    /\ key_in.profile = "SRTP_AEAD_AES_128_GCM"
    /\ key_in.material[1] = 5 /\ key_in.material[2] = 8
    /\ Len(key_out.protection_profile[1].server_key) = 28
    /\ key_out.protection_profile[1].server_key[17] = (5 + 3 * 44) % 256

(***************************************************************************)
(* Properties of the session after end-of-candidates (checked under Spec). *)
(***************************************************************************)
\* the SRTP read loop was entered and has returned
SrtpLoopEnded == Count(steps, {"read_srtp"}) > 0 /\ task # "srtp"

\* C17: the SRTP read loop runs only while no iteration has failed; the
\* iteration whose unprotect (or recv) fails returns the error without
\* unprotecting anything, and once the loop has returned no packet is read
\* or unprotected and the loop is never entered again in that session.
C17_UnprotectFailureEndsLoop ==
    /\ [](task = "srtp" => last.res = "pending")
    /\ [](Count(steps, {"read_srtp"}) <= 1)
    /\ [][(task = "srtp" /\ last'.res # "pending")
          => (task' = "idle" /\ last'.res = "InternalError" /\ srtp_n' = srtp_n)]_vars
    /\ [][SrtpLoopEnded
          => (srtp_n' = srtp_n /\ task' # "srtp" /\ steps' = steps)]_vars

C17_Witness ==
    /\ SrtpLoopEnded
    /\ srtp_n = 1
    /\ last.state = "CandidatesEnd"
    /\ last.json = "candidate"
    /\ last.candidate = ""
    /\ last.res = "Ok"

\* C18: when handle_message has returned WebSocketWriteError for a failed
\* write of a candidate or of the answer, the session's next step sends no
\* candidate and no answer and performs no ICE connect, DTLS handshake or
\* SRTP read.
C18_WriteFailureAbortsHandshake ==
    [][last.res = "WebSocketWriteError"
       => (sent' = sent /\ steps' = steps /\ task' # "srtp")]_vars

\* the results of handle_message that report a failure
Failures ==
    {"ParseFailed", "InvalidSDP", "InvalidAgentConfig", "GatheringError",
     "WebSocketWriteError", "InternalError", "NoProtectionProfile",
     "InvalidProtectionProfile"}

\* C19: once the handling of a message has failed (offer parse or config
\* error, gathering error, write error, ICE, DTLS, key export or SRTP
\* error), the session handles no further inbound message: a rejected remote
\* candidate, which is no failure of handle_message, is the only exception.
C19_FailureEndsSession ==
    [][last.res \in Failures => ~HandledStep]_vars

\* C20: a non-empty candidate that the ICE agent rejects is handled with
\* success and changes nothing: the state stays Candidate, nothing is sent;
\* the session goes on as if the candidate had not come, so later candidates
\* and the end-of-candidates marker are processed as usual.
C20_RejectedCandidateNotFatal ==
    /\ [](rejected => ph.message_state # "Offer")
    /\ [][(/\ HandledStep
           /\ ph.message_state = "Candidate"
           /\ ph.ice_agent # None
           /\ last'.json = "candidate"
           /\ last'.candidate = BadCandidate)
          => (/\ last'.res = "Ok"
              /\ ph' = ph
              /\ ph'.message_state = "Candidate"
              /\ sent' = sent
              /\ steps' = steps
              /\ task' = "idle")]_vars

\* a session that had a candidate rejected and one accepted: the marker was
\* answered and the SRTP loop runs
C20_Witness ==
    /\ rejected
    /\ ph.message_state = "CandidatesEnd"
    /\ ph.ice_agent[1].remote # {}
    /\ AnswersSent = 1
    /\ task = "srtp"

(***************************************************************************)
(* The loop of handle_offer_websocket and the steps after the marker.      *)
(***************************************************************************)
\* this step takes a message out of the stream and starts handling it
ReadStep == inbox' # inbox /\ Len(inbox') < Len(inbox)

\* C21: within one session the inbound messages are handled strictly in
\* arrival order and never concurrently: a message is taken from the stream
\* only when no handler is running (neither suspended in gathering nor in
\* the SRTP read loop), it is the oldest message waiting, and it is the
\* arrival that follows the message handled before it.
C21_SequentialInOrder ==
    [][ReadStep => (/\ task = "idle"
                    /\ inbox' = Tail(inbox)
                    /\ last'.seq = Head(inbox)
                    /\ last'.seq = ~last.seq)]_vars

\* the end-of-candidates marker started the SRTP read loop, two more
\* messages have arrived meanwhile and wait in the stream
C21_Witness ==
    /\ task = "srtp"
    /\ last.candidate = ""
    /\ last.json = "candidate"
    /\ Len(inbox) >= 2
    /\ inbox[1] = ~last.seq
    /\ inbox[2] = last.seq

(***************************************************************************)
(* Properties of the session registry (checked under SpecSessions).        *)
(***************************************************************************)
\* this step is the call op on the session id (the clock does not move in a call)
Called(op, id) == now' = now /\ reply'.op = op /\ reply'.id = id

LifecycleMoves == {<<"Created", "Started">>, <<"Started", "Stopped">>}

SameLifecycle(s, t) ==
    t.state = s.state /\ t.start_time = s.start_time /\ t.stop_time = s.stop_time

\* C22: a session's lifecycle state only follows Created -> Started ->
\* Stopped: start succeeds only in Created, stop succeeds only in Started,
\* every other start or stop returns InvalidStateError and leaves state,
\* start_time and stop_time unchanged, so a stopped session is never started
\* again (a session stays the same object until add_session replaces it).
C22_Lifecycle ==
    [][\A id \in DOMAIN sessions :
         LET s == sessions[id]
             t == sessions'[id]
         IN  /\ Called("start", id) =>
                  IF s.state = "Created"
                  THEN reply'.res = "Ok" /\ t.state = "Started"
                  ELSE reply'.res = "InvalidStateError" /\ SameLifecycle(s, t)
             /\ Called("stop", id) =>
                  IF s.state = "Started"
                  THEN reply'.res = "Ok" /\ t.state = "Stopped"
                  ELSE reply'.res = "InvalidStateError" /\ SameLifecycle(s, t)
             /\ ~Called("add_session", id) =>
                  \/ SameLifecycle(s, t)
                  \/ /\ <<s.state, t.state>> \in LifecycleMoves
                     /\ reply'.res = "Ok"
                     /\ Called("start", id) \/ Called("stop", id)]_vars

\* a session went through its whole lifecycle and a start call on the stopped
\* session was refused
C22_Witness ==
    \E id \in DOMAIN sessions :
        /\ sessions[id].state = "Stopped"
        /\ sessions[id].start_time # None
        /\ sessions[id].stop_time # None
        /\ reply = [op |-> "start", id |-> id, res |-> "InvalidStateError", val |-> None]

\* this step is an add_session call, of a session with this id and name
Added(id, name) ==
    /\ Called("add_session", id)
    /\ reply'.val = Some(name)

\* C23: after add_session(s), get_session(s.id) returns a session whose id
\* is s.id; get_session of an id that was never added returns
\* InvalidSessionError; whatever sessions are added, the registry holds
\* exactly one session per id added, the last one added under that id.
C23_Registry ==
    /\ [](\A id \in DOMAIN sessions : sessions[id].id = id)
    /\ [](reply.op = "get_session" =>
            IF reply.id \in DOMAIN sessions
            THEN reply.res = "Ok" /\ reply.val[1].id = reply.id
                 /\ reply.val[1] = sessions[reply.id]
            ELSE reply.res = "InvalidSessionError" /\ reply.val = None)
    /\ [][\A id \in SessionIds, name \in SessionNames :
            Added(id, name) =>
               /\ DOMAIN sessions' = DOMAIN sessions \cup {id}
               /\ sessions'[id] = NewSession(id, name)
               /\ \A other \in DOMAIN sessions \ {id} : sessions'[other] = sessions[other]]_vars
    /\ [][DOMAIN sessions' # DOMAIN sessions =>
            \E id \in SessionIds, name \in SessionNames : Added(id, name)]_vars

\* a session was added twice under one id, with different names, and
\* get_session returns the second one; the other id was never added
C23_Witness ==
    /\ DOMAIN sessions = {"s1"}
    /\ sessions["s1"].name = "second"
    /\ reply.op = "get_session"
    /\ reply.id = "s1"
    /\ reply.res = "Ok"
    /\ reply.val[1].name = "second"

\* the whole seconds between two readings of the clock
WholeSeconds(from, to) == (to - from) \div TicksPerSecond

\* C24: the elapsed time reported in the session stats is 0 while the session
\* is Created, the whole seconds from start to now while it is Started, and
\* the whole seconds from start to stop once it is Stopped, whatever the
\* clock says by then.
C24_ElapsedTime ==
    [][\A id \in DOMAIN sessions :
         Called("get_stats", id) =>
            LET s == sessions[id]
                stats == reply'.val[1]
            IN  /\ reply'.res = "Ok"
                /\ stats.state = s.state
                /\ stats.elapsed_time =
                     CASE s.state = "Created" -> 0
                       [] s.state = "Started" -> WholeSeconds(s.start_time[1], now)
                       [] s.state = "Stopped" -> WholeSeconds(s.start_time[1], s.stop_time[1])]_vars

\* a session ran for one second, was stopped, and its stats read a second
\* after the stop still report one second
C24_Witness ==
    /\ reply.op = "get_stats"
    /\ reply.res = "Ok"
    /\ reply.val[1].state = "Stopped"
    /\ reply.val[1].start_time # None
    /\ reply.val[1].stop_time # None
    /\ reply.val[1].elapsed_time = 1
    /\ WholeSeconds(reply.val[1].start_time[1], now) = 2

\* the steps after the end-of-candidates marker, by kind
StepKind(step) ==
    CASE step \in IceSteps -> "ice"
      [] step \in DtlsSteps -> "dtls"
      [] OTHER -> step

FixedOrder == <<"create_answer", "ice", "add_mux", "dtls", "extract_srtp_info", "read_srtp">>

\* how many steps are started when the environment fails the given call
\* (none when the offer left no configuration to create the answer from)
StepsStarted(fail) ==
    IF ph.sdp_config = None \/ ph.offer = None THEN 0
    ELSE CASE fail = "send" -> 1
           [] fail = "ice" -> 2
           [] fail = "ssl" -> 3
           [] fail = "dtls" -> 4
           [] fail \in {"export", "srtp_setup"} -> 5
           [] fail = "none" -> IF ph.protection_profile = None THEN 5 ELSE 6

\* the last message handled was the end-of-candidates marker
MarkerHandled ==
    /\ last.state = "Candidate"
    /\ last.json \in {"candidate", "both"}
    /\ last.candidate = ""
    /\ ph.message_state = "CandidatesEnd"

\* C25: after the end-of-candidates marker the steps occur in the order
\* answer -> ICE connect -> mux wiring -> DTLS handshake -> SRTP key
\* derivation -> SRTP read loop: the steps performed are a prefix of that
\* order, they stop at the step that failed, ICE starts only once the answer
\* has been sent, the read loop only once the keys are derived, and the steps
\* are performed by the handling of one marker and never added to afterwards.
C25_FixedStepOrder ==
    /\ [](/\ Len(steps) <= Len(FixedOrder)
          /\ \A i \in 1..Len(steps) : StepKind(steps[i]) = FixedOrder[i]
          /\ Len(steps) >= 2 <=> AnswersSent = 1
          /\ Len(steps) >= 3 <=> ph.mux # None
          /\ Len(steps) = 6 => ph.protection_profile # None
          /\ steps # <<>> => ph.message_state = "CandidatesEnd"
          /\ MarkerHandled => Len(steps) = StepsStarted(last.fail))
    /\ [][steps' # steps => (steps = <<>> /\ task = "idle" /\ MarkerHandled')]_vars

\* the DTLS handshake failed: the four steps up to it were performed, the
\* keys were not derived and the read loop was not started
C25_Witness ==
    /\ MarkerHandled
    /\ last.fail = "dtls"
    /\ last.res = "InternalError"
    /\ Len(steps) = 4
    /\ ph.protection_profile = None
    /\ task = "idle"

(***************************************************************************)
(* Properties of the candidate gathering (checked under SpecGather).       *)
(***************************************************************************)
\* the candidates of the outbound candidate messages, in the order sent
SentCandidates == [i \in 1..Len(sent) |-> sent[i].body[2]]

\* the candidates the agent reported before its sentinel
ReportedCandidates == SelectSeq(reported, LAMBDA c : c # Sentinel)

IsPrefix(s, t) == Len(s) <= Len(t) /\ \A i \in 1..Len(s) : s[i] = t[i]

\* C26: the outbound candidate messages of a session are the local candidates
\* the ICE agent reported before its gathering-complete sentinel, each once
\* and in discovery order, however the candidate callback interleaves with
\* the signaling task: nothing is sent before the sentinel, what has been
\* sent is at any moment a prefix of what was reported, and when
\* start_handshake returns Ok the two sequences are equal.
C26_CandidatesInDiscoveryOrder ==
    /\ \A i \in 1..Len(sent) : sent[i].kind = "candidate"
    /\ IsPrefix(SentCandidates, ReportedCandidates)
    /\ sent # <<>> => SentinelReported
    /\ gather_pc = "done" => (SentinelReported /\ SentCandidates = ReportedCandidates)
    /\ \A i, j \in 1..Len(sent) : sent[i] = sent[j] => i = j

\* the agent discovered a relay candidate before a host candidate, and both
\* were sent in that order
C26_Witness ==
    /\ gather_pc = "done"
    /\ reported = <<"relay", "host", Sentinel>>
    /\ SentCandidates = <<"relay", "host">>

(***************************************************************************)
(* Further properties of the signaling state machine (checked under Spec). *)
(***************************************************************************)
\* the agent took the offer, started gathering and never signalled completion
GatheringNeverCompletes ==
    /\ last.state = "Offer"
    /\ last.fail = "stall"
    /\ ph.ice_state = "Gathering"
    /\ ph.message_state = "Candidate"

\* C27: if, after an offer, the ICE agent never signals gathering completion,
\* the session stalls for good: the task stays suspended in the handling of
\* the offer, no candidate and no answer is sent, no handshake step is
\* performed, and no further inbound message is handled, whatever arrives.
C27_StalledGathering ==
    /\ [](GatheringNeverCompletes => task = "stalled")
    /\ [](task = "stalled" =>
            (GatheringNeverCompletes /\ sent = <<>> /\ steps = <<>> /\ last.res = "pending"))
    /\ [][task = "stalled" =>
            (/\ task' = "stalled"
             /\ sent' = sent
             /\ steps' = steps
             /\ last' = last
             /\ ph' = ph)]_vars

\* the session is stalled and two messages that arrived since wait unhandled
C27_Witness ==
    /\ task = "stalled"
    /\ Len(inbox) >= 2
    /\ inbox[1] # last.seq

\* C28: the message state leaves Offer only on a valid offer: when the
\* handling of a message in the Offer state fails, the session is still in
\* the Offer state afterwards (stated here for the failures that need no
\* fault of the environment: a message or an offer that is not valid).
C28_OfferStateLeftOnlyByValidOffer ==
    [][(/\ HandledStep
        /\ ph.message_state = "Offer"
        /\ last'.fail = "none"
        /\ last'.res \notin {"Ok", "pending"})
          => ph'.message_state = "Offer"]_vars

(***************************************************************************)
(* Further properties of the SDP functions (checked under SpecSdp).        *)
(***************************************************************************)
\* C29: create_answer copies the offer's session-level fields verbatim: the
\* answer's origin, connection information, bandwidth lines and time
\* descriptions (timing, and every repeat time's interval, duration and
\* offsets) equal the offer's.
C29_SessionLevelVerbatim ==
    Answered =>
        /\ sdp_out.origin = sdp_in.origin
        /\ sdp_out.connection_information = sdp_in.connection_information
        /\ sdp_out.bandwidth = sdp_in.bandwidth
        /\ Len(sdp_out.time_descriptions) = Len(sdp_in.time_descriptions)
        /\ \A i \in 1..Len(sdp_in.time_descriptions) :
             LET ot == sdp_in.time_descriptions[i]
                 at == sdp_out.time_descriptions[i]
             IN  /\ at.timing = ot.timing
                 /\ Len(at.repeat_times) = Len(ot.repeat_times)
                 /\ \A j \in 1..Len(ot.repeat_times) :
                      /\ at.repeat_times[j].interval = ot.repeat_times[j].interval
                      /\ at.repeat_times[j].duration = ot.repeat_times[j].duration
                      /\ at.repeat_times[j].offsets = ot.repeat_times[j].offsets

\* C30: each answer media section is a clone of the offer media section at
\* the same position except for its attributes: media name, title,
\* connection information, bandwidth and encryption key are equal.
C30_MediaSectionClone ==
    Answered =>
        /\ Len(sdp_out.media_descriptions) = Len(sdp_in.media_descriptions)
        /\ \A i \in 1..Len(sdp_in.media_descriptions) :
             LET om == sdp_in.media_descriptions[i]
                 am == sdp_out.media_descriptions[i]
             IN  /\ am.media_name = om.media_name
                 /\ am.media_title = om.media_title
                 /\ am.connection_information = om.connection_information
                 /\ am.bandwidth = om.bandwidth
                 /\ am.encryption_key = om.encryption_key

(***************************************************************************)
(* Properties of the endpoint adapter (checked under SpecAdapter).         *)
(***************************************************************************)
\* this step is a read that found a packet in the endpoint's buffer
PacketRead == Len(rw_packets') < Len(rw_packets)

\* C31: each read of the endpoint adapter consumes exactly one packet of the
\* endpoint and never joins two; it copies as many bytes as the caller's
\* buffer allows, so a packet longer than the caller's space, or longer than
\* 1400 bytes (up to the buffer size of the mux), makes the read neither
\* fail nor panic.
C31_ReadOnePacket ==
    [][PacketRead =>
         /\ rw_packets' = Tail(rw_packets)
         /\ rw_read'.res = "Ok"
         /\ rw_read'.filled = Min({Head(rw_packets), rw_read'.remaining})]_vars

(***************************************************************************)
(* Properties of the key export, continued (checked under SpecKeys).       *)
(***************************************************************************)
\* the number of bytes export_keying_material was asked for: it fills the
\* buffer it is given
ExportedLen == Len(key_in.material)

\* C32: after a successful handshake keying material is exported for exactly
\* 2 x (key_length + salt_length) bytes: 60 for SRTP_AES128_CM_SHA1_80 and 56
\* for SRTP_AEAD_AES_128_GCM.
C32_ExportLength ==
    key_out.res = "Ok" =>
        /\ ExportedLen = 2 * (ProfileLens(key_in.profile)[1] + ProfileLens(key_in.profile)[2])
        /\ key_in.profile = "SRTP_AES128_CM_SHA1_80" => ExportedLen = 60
        /\ key_in.profile = "SRTP_AEAD_AES_128_GCM" => ExportedLen = 56

(***************************************************************************)
(* Properties of the DTLS handshake and the SRTP session (checked under    *)
(* Spec).                                                                  *)
(***************************************************************************)
\* the handshake call the gateway made
Performed(call) == \E i \in 1..Len(steps) : steps[i] = call

\* C33: the TLS context of the DTLS handshake is chosen by the gateway's
\* role: the client context when the gateway acts as DTLS client, the server
\* context, which also offers SRTP_AEAD_AES_128_GCM, when it acts as DTLS
\* server.
C33_ContextByRole ==
    /\ Performed("dtls_connect") => dtls.ctx = "ssl_client"
    /\ Performed("dtls_accept") =>
         /\ dtls.ctx = "ssl_server"
         /\ "SRTP_AEAD_AES_128_GCM" \in CtxProfiles(dtls.ctx)

\* the answers sent to the client
AnswerBodies == { sent[i].body : i \in {n \in 1..Len(sent) : sent[n].kind = "answer"} }

\* the values of the setup attributes of the answers sent
AnswerSetups ==
    UNION { UNION { { m.attributes[j].value :
                        j \in {n \in 1..Len(m.attributes) : m.attributes[n].key = "setup"} } :
                    m \in { sdp.media_descriptions[k] :
                              k \in 1..Len(sdp.media_descriptions) } } :
            sdp \in AnswerBodies }

\* C35: in every session that reaches the DTLS handshake the DTLS role the
\* gateway performs is the setup role of the answer it sent: it accepts
\* (server) when the answer says setup:passive and connects (client) when the
\* answer says setup:active.
C35_RoleAsAdvertised ==
    /\ (Performed("dtls_accept") \/ Performed("dtls_connect")) => AnswerBodies # {}
    /\ Performed("dtls_accept") => AnswerSetups = {"passive"}
    /\ Performed("dtls_connect") => AnswerSetups = {"active"}
    /\ ~(Performed("dtls_accept") /\ Performed("dtls_connect"))

C35_Witness ==
    /\ Performed("dtls_accept")
    /\ AnswerSetups = {"passive"}
    /\ task = "srtp"

\* the key block the remote peer writes with, for the role the gateway took
RemoteWriteKey ==
    IF Performed("dtls_accept") THEN ph.protection_profile[1].client_key
    ELSE ph.protection_profile[1].server_key

Created == 1..Len(ep)

\* C34: under any interleaving of endpoint registration, Endpoint::close on
\* different endpoints and the read loop, the registry holds exactly the
\* endpoints created and not yet closed, and no packet becomes readable from
\* an endpoint after its close has returned.
C34_CloseUnderInterleaving ==
    /\ [](endpoints = Created \ close_returned)
    /\ [][\A id \in close_returned : Held(ep'[id]) = Held(ep[id])]_vars

\* the read loop has matched a packet to an endpoint whose close returned
\* before the write, while another endpoint is being closed and a third was
\* registered
C34_Witness ==
    /\ pending # <<>>
    /\ pending[1].hit \in close_returned
    /\ closing # {}
    /\ Len(ep) > 2

(***************************************************************************)
(* Properties of the handler's fields, continued (checked under Spec).     *)
(***************************************************************************)
\* C37: in every reachable state of a session the stored offer is present
\* exactly when the parsed SdpConfig is present; when the SdpConfig is
\* present the ICE agent is present; and while the message state is Offer
\* none of the three is present.
C37_OfferConfigAgent ==
    /\ ph.offer # None <=> ph.sdp_config # None
    /\ ph.sdp_config # None => ph.ice_agent # None
    /\ ph.message_state = "Offer" =>
         (ph.offer = None /\ ph.sdp_config = None /\ ph.ice_agent = None)

\* an offer without ICE credentials was handled: the agent is there, the
\* configuration and the offer are not
C37_Witness ==
    /\ last.res = "InvalidSDP"
    /\ ph.message_state = "Candidate"
    /\ ph.ice_agent # None
    /\ ph.sdp_config = None
    /\ ph.offer = None

\* the handling of the offer ended in a gathering error or a failed write of
\* a gathered candidate
GatheringFailed ==
    /\ last.state = "Offer"
    /\ last.res \in {"GatheringError", "WebSocketWriteError"}

\* C38: an answer is sent only in a session whose gathering completed and
\* whose gathered candidates were all sent before: after a gathering error or
\* a failed candidate write no answer is ever sent and no ICE connect is
\* attempted.
\* Stated on the step that follows the failure: it sends no answer and makes
\* no ICE connect.
C38_AnswerOnlyAfterCandidates ==
    [][GatheringFailed =>
         /\ AnswersSent' = 0
         /\ Count(steps', IceSteps) = 0]_vars

(***************************************************************************)
(* Properties of the SDP functions, continued (checked under SpecSdp).     *)
(***************************************************************************)
\* the values of the media attributes with the given key, in document order
ValuesInOrder(key) ==
    SelectSeq(MediaAttrs(sdp_in), LAMBDA a : a.key = key /\ a.value # NoneVal)

\* the last of them
LastValue(key) == ValuesInOrder(key)[Len(ValuesInOrder(key))].value

\* the setup value of the answer for the last setup value of the offer
SingleSetup == IF LastValue("setup") = "active" THEN "passive" ELSE "active"

\* C39: when the media sections of an offer carry several or differing
\* ice-ufrag, ice-pwd or setup attributes, parse_sdp_config keeps the last
\* value of each in document order (a later unrecognized setup value
\* overrides an earlier recognized one), and create_answer writes the single
\* setup value derived from it into every media section, whatever that
\* section's own setup value is.
C39_LastOccurrenceWins ==
    (Parsed /\ sdp_cfg.err = "") =>
        /\ sdp_cfg.remote_ice_username = LastValue("ice-ufrag")
        /\ sdp_cfg.remote_ice_password = LastValue("ice-pwd")
        /\ sdp_cfg.active_mode = RoleOf(LastValue("setup"))
        /\ sdp_pc = "answered" =>
             \A p \in OfferPositions :
                 OfferAttrAt(p).key = "setup" => AnswerAttrAt(p) = Attr("setup", SingleSetup)

\* two sections that disagree: actpass, then active; both are answered passive
C39_Witness ==
    /\ sdp_pc = "answered"
    /\ Len(sdp_in.media_descriptions) = 2
    /\ sdp_in.media_descriptions[1] = AudioMedia
    /\ sdp_in.media_descriptions[2].attributes = <<Attr("ice-ufrag", "def"), Attr("setup", "active")>>
    /\ sdp_cfg.remote_ice_username = "def"
    /\ sdp_cfg.active_mode = "Active"
    /\ \A p \in OfferPositions :
         OfferAttrAt(p).key = "setup" => AnswerAttrAt(p) = Attr("setup", "passive")

\* a recognized setup value followed by an unrecognized one
C39_WitnessUnknown ==
    /\ sdp_pc = "answered"
    /\ \E i \in 1..Len(sdp_in.media_descriptions) :
         sdp_in.media_descriptions[i].attributes
             = <<Attr("setup", "active"), Attr("setup", "holdconn")>>
    /\ sdp_cfg.active_mode = "ActivePassive"

(***************************************************************************)
(* Properties of the factory pool (checked under SpecPool).                *)
(***************************************************************************)
RECURSIVE SumUpTo(_, _)
SumUpTo(counts, n) == IF n = 0 THEN 0 ELSE counts[n - 1] + SumUpTo(counts, n - 1)

\* the sum of the counts of all factories
SumCounts == SumUpTo(pool_count, Cardinality(DOMAIN pool_count))

\* C40: after any interleaving of concurrent create_peer_connection_manager
\* calls on a pool with at least one factory every call was assigned to a
\* factory whose count was minimal, so the counts of the factories differ by
\* at most 1 and their sum is the number of calls made.
C40_BalancedPool ==
    /\ [][\A id \in DOMAIN pool_count :
            pool_count'[id] # pool_count[id] => id \in MinItems(pool_count)]_vars
    /\ [](InFlight = {} =>
            /\ \A x, y \in DOMAIN pool_count : pool_count[x] - pool_count[y] <= 1
            /\ SumCounts = pool_done)
====
